---- MODULE Spec2Model ----
(***************************************************************************)
(* A model of gojango's QuerySet builder (gojango.go), the relational      *)
(* execution of its terminal calls and the in-memory MockDB (database      *)
(* package).                                                               *)
(*                                                                         *)
(* Six specifications share the variables:                                 *)
(*   SpecQS    the copy-on-write chain calls over Go slices;               *)
(*   SpecExec  chain calls followed by All / Update / Delete;              *)
(*   SpecMock  goroutines calling the MockDB under its RWMutex;            *)
(*   SpecDB    key-based calls on a DB handle of either driver;            *)
(*   SpecHTTP  middleware and route registration and the serving of        *)
(*             requests;                                                   *)
(*   SpecDDL   the column definition built for a struct field's tag.       *)
(***************************************************************************)
EXTENDS Integers, Sequences, FiniteSets, TLC

VARIABLES
    whereHeap,  \* backing arrays of the []string slices QuerySet.where points to
    argsHeap,   \* backing arrays of the []interface{} slices QuerySet.args points to
    qsets,      \* every QuerySet value built so far, by creation order
    born,       \* history: what each QuerySet read as when it was returned
    lineage,    \* history: the Filter/Exclude calls that led to each QuerySet
    lastCall,   \* the last chain call and how it ended
    rows,       \* the rows of the QuerySet's table
    lastOp,     \* the last terminal call and what it did
    tables,     \* MockDB.tables
    nextID,     \* MockDB.nextID
    mutex,      \* MockDB.mutex
    pc,         \* where each goroutine stands in its MockDB call
    local,      \* each goroutine's call frame
    calls,      \* how many MockDB calls the goroutines have started
    history,    \* history: the MockDB calls that ran, in the order they held the lock
    dbDriver,   \* DB.driver of the handle the key-based calls go through
    sqlTables,  \* the tables of the SQLite database behind DB.Conn
    dbCalls,    \* how many calls the handle has served
    dbLast,     \* the last call on the handle and how it ended
    dbOwners,   \* history: the record type each MockDB row was created for
    middleware,      \* App.middleware
    groupMiddleware, \* RouteGroup.middleware of the application's route group
    routes,          \* Router.routes["GET"]
    lastRequest,     \* the last request the router served and what ran for it
    structField,     \* the struct field handed to buildColumnDefinition
    columnDef        \* the column definition built for it

qsVars   == <<whereHeap, argsHeap, qsets, born, lineage, lastCall>>
execVars == <<rows, lastOp>>
mockVars == <<tables, nextID, mutex, pc, local, calls, history>>
dbVars   == <<dbDriver, sqlTables, dbCalls, dbLast, dbOwners>>
httpVars == <<middleware, groupMiddleware, routes, lastRequest>>
ddlVars  == <<structField, columnDef>>
vars     == <<whereHeap, argsHeap, qsets, born, lineage, lastCall, rows, lastOp,
              tables, nextID, mutex, pc, local, calls, history,
              dbDriver, sqlTables, dbCalls, dbLast, dbOwners,
              middleware, groupMiddleware, routes, lastRequest, structField, columnDef>>

(***************************************************************************)
(* Bounds.                                                                 *)
(***************************************************************************)
MaxQS == 3
MaxExecQS == 3
MaxTerminal == 1
MaxCalls == 3

(***************************************************************************)
(* Go values held in interface{}: a dynamic type and a payload.  Text is a *)
(* sequence of one-character strings.                                      *)
(***************************************************************************)
IntV(n)  == [t |-> "int",  i |-> n, s |-> <<>>, l |-> <<>>]
StrV(s)  == [t |-> "string", i |-> 0, s |-> s, l |-> <<>>]
BoolV(b) == [t |-> "bool", i |-> IF b THEN 1 ELSE 0, s |-> <<>>, l |-> <<>>]
ListV(l) == [t |-> "slice", i |-> 0, s |-> <<>>, l |-> l]
NullV    == [t |-> "nil",  i |-> 0, s |-> <<>>, l |-> <<>>]

\* The zero values Go leaves in the unused capacity of a backing array.
ZeroCond == [field |-> "", op |-> "", n |-> 0, neg |-> 0]
ZeroArg  == NullV

(***************************************************************************)
(* Go slices: a header (array, len) over a backing array whose length is   *)
(* the capacity.  arr = 0 is the nil slice.                                *)
(***************************************************************************)
NilSlice == [arr |-> 0, len |-> 0]

Cap(heap, sl) == IF sl.arr = 0 THEN 0 ELSE Len(heap[sl.arr])

SliceView(heap, sl) == IF sl.arr = 0 THEN <<>> ELSE SubSeq(heap[sl.arr], 1, sl.len)

Zeros(n, zero) == [k \in 1..n |-> zero]

\* make([]T, len(src)) followed by copy(dst, src).
MakeCopy(heap, sl) ==
    [heap |-> Append(heap, SliceView(heap, sl)),
     sl   |-> [arr |-> Len(heap) + 1, len |-> sl.len]]

\* append(sl, x): in place while capacity is left, else into a grown array.
GrowCap(c) == IF c = 0 THEN 1 ELSE 2 * c

AppendSlice(heap, sl, x, zero) ==
    IF sl.len < Cap(heap, sl)
    THEN [heap |-> [heap EXCEPT ![sl.arr][sl.len + 1] = x],
          sl   |-> [arr |-> sl.arr, len |-> sl.len + 1]]
    ELSE LET newcap == GrowCap(Cap(heap, sl))
             fresh  == SliceView(heap, sl) \o <<x>> \o Zeros(newcap - sl.len - 1, zero)
         IN  [heap |-> Append(heap, fresh),
              sl   |-> [arr |-> Len(heap) + 1, len |-> sl.len + 1]]

RECURSIVE AppendAll(_, _, _, _)
AppendAll(heap, sl, xs, zero) ==
    IF xs = <<>> THEN [heap |-> heap, sl |-> sl]
    ELSE LET one == AppendSlice(heap, sl, Head(xs), zero)
         IN  AppendAll(one.heap, one.sl, Tail(xs), zero)

\* s[i] = v through a slice header.
StoreAt(heap, sl, i, v) == [heap EXCEPT ![sl.arr][i] = v]

(***************************************************************************)
(* QuerySet (gojango.go).  A condition stands for the SQL text Filter      *)
(* builds: the column, the operator, the number of "?" it holds and how    *)
(* many "NOT (...)" wrap it.                                               *)
(***************************************************************************)
Cond(field, op, n) == [field |-> field, op |-> op, n |-> n, neg |-> 0]

NewQuerySet ==
    [where |-> NilSlice, args |-> NilSlice, orderBy |-> <<>>, limit |-> 0, offset |-> 0]

WhereOf(wh, qs) == SliceView(wh, qs.where)
ArgsOf(ah, qs)  == SliceView(ah, qs.args)

\* What a QuerySet reads as: the fields every terminal call consults.
QSView(wh, ah, qs) ==
    [where |-> WhereOf(wh, qs), args |-> ArgsOf(ah, qs),
     orderBy |-> qs.orderBy, limit |-> qs.limit, offset |-> qs.offset]

\* fmt.Sprintf("%v", value) for the values the chain calls take.
Sprintv(v) ==
    CASE v.t = "string" -> v.s
      [] v.t = "int"    -> <<ToString(v.i)>>
      [] v.t = "bool"   -> IF v.i = 1 THEN <<"t", "r", "u", "e">> ELSE <<"f", "a", "l", "s", "e">>
      [] OTHER          -> <<>>

\* strings.Split(field, "__"): the model holds a field as its parts.
FieldName(parts) == parts[1]
Lookup(parts)    == IF Len(parts) > 1 THEN parts[2] ELSE "exact"

\* The switch of Filter: the condition it builds, the value it binds and
\* whether control reaches the two appends or jumps over them.
FilterCase(parts, value) ==
    LET f  == FieldName(parts)
        lk == Lookup(parts)
    IN CASE lk = "exact"      -> [cond |-> Cond(f, "=", 1), value |-> value, skip |-> FALSE, panic |-> FALSE, inArgs |-> <<>>]
         [] lk = "iexact"     -> [cond |-> Cond(f, "LOWER=", 1), value |-> value, skip |-> FALSE, panic |-> FALSE, inArgs |-> <<>>]
         [] lk = "contains"   -> [cond |-> Cond(f, "LIKE", 1), value |-> StrV(<<"%">> \o Sprintv(value) \o <<"%">>), skip |-> FALSE, panic |-> FALSE, inArgs |-> <<>>]
         [] lk = "icontains"  -> [cond |-> Cond(f, "LOWERLIKE", 1), value |-> StrV(<<"%">> \o Sprintv(value) \o <<"%">>), skip |-> FALSE, panic |-> FALSE, inArgs |-> <<>>]
         [] lk = "startswith" -> [cond |-> Cond(f, "LIKE", 1), value |-> StrV(Sprintv(value) \o <<"%">>), skip |-> FALSE, panic |-> FALSE, inArgs |-> <<>>]
         [] lk = "endswith"   -> [cond |-> Cond(f, "LIKE", 1), value |-> StrV(<<"%">> \o Sprintv(value)), skip |-> FALSE, panic |-> FALSE, inArgs |-> <<>>]
         [] lk = "gt"         -> [cond |-> Cond(f, ">", 1), value |-> value, skip |-> FALSE, panic |-> FALSE, inArgs |-> <<>>]
         [] lk = "gte"        -> [cond |-> Cond(f, ">=", 1), value |-> value, skip |-> FALSE, panic |-> FALSE, inArgs |-> <<>>]
         [] lk = "lt"         -> [cond |-> Cond(f, "<", 1), value |-> value, skip |-> FALSE, panic |-> FALSE, inArgs |-> <<>>]
         [] lk = "lte"        -> [cond |-> Cond(f, "<=", 1), value |-> value, skip |-> FALSE, panic |-> FALSE, inArgs |-> <<>>]
         [] lk = "in" ->
              IF value.t = "slice"
              THEN [cond |-> Cond(f, "IN", Len(value.l)), value |-> value, skip |-> TRUE, panic |-> FALSE,
                    inArgs |-> [k \in 1..Len(value.l) |-> IntV(value.l[k])]]
              ELSE [cond |-> Cond(f, "=", 1), value |-> value, skip |-> FALSE, panic |-> FALSE, inArgs |-> <<>>]
         [] lk = "isnull" ->
              IF value.t # "bool"
              THEN [cond |-> ZeroCond, value |-> value, skip |-> TRUE, panic |-> TRUE, inArgs |-> <<>>]
              ELSE [cond |-> Cond(f, IF value.i = 1 THEN "ISNULL" ELSE "ISNOTNULL", 0),
                    value |-> value, skip |-> TRUE, panic |-> FALSE, inArgs |-> <<>>]
         [] OTHER             -> [cond |-> Cond(f, "=", 1), value |-> value, skip |-> FALSE, panic |-> FALSE, inArgs |-> <<>>]

\* A Filter that takes newQS := *qs and leaves where and args shared.
CopyForFilterShared(wh, ah, qs) == [wh |-> wh, ah |-> ah, qs |-> qs]

\* The copy Filter starts from: newQS := *qs with where and args copied.
CopyForFilter(wh, ah, qs) ==
    LET w == MakeCopy(wh, qs.where)
        a == MakeCopy(ah, qs.args)
    IN  [wh |-> w.heap, ah |-> a.heap,
         qs |-> [qs EXCEPT !.where = w.sl, !.args = a.sl]]

\* QuerySet.Filter: the heaps and the QuerySet it returns, or a panic.
Filter(wh, ah, qs, parts, value) ==
    LET c0   == CopyForFilter(wh, ah, qs)
        fc   == FilterCase(parts, value)
        inA  == AppendAll(c0.ah, c0.qs.args, fc.inArgs, ZeroArg)
        w1   == AppendSlice(c0.wh, c0.qs.where, fc.cond, ZeroCond)
        a1   == AppendSlice(c0.ah, c0.qs.args, fc.value, ZeroArg)
    IN  IF fc.panic
        THEN [panic |-> TRUE, wh |-> wh, ah |-> ah, qs |-> qs]
        ELSE IF fc.skip
        THEN [panic |-> FALSE, wh |-> c0.wh, ah |-> inA.heap,
              qs |-> [c0.qs EXCEPT !.args = inA.sl]]
        ELSE [panic |-> FALSE, wh |-> w1.heap, ah |-> a1.heap,
              qs |-> [c0.qs EXCEPT !.where = w1.sl, !.args = a1.sl]]

\* QuerySet.Exclude: Filter, then "NOT (...)" around the last condition of the result.
Exclude(wh, ah, qs, parts, value) ==
    LET f    == Filter(wh, ah, qs, parts, value)
        last == f.qs.where.len
        old  == f.wh[f.qs.where.arr][last]
    IN  IF f.panic \/ last = 0 THEN f
        ELSE [f EXCEPT !.wh = StoreAt(f.wh, f.qs.where, last, [old EXCEPT !.neg = old.neg + 1])]

\* An OrderBy that adds its column after the ones set before.
OrderByCompose(qs, field) ==
    IF Len(field) > 0 /\ field[1] = "-"
    THEN [qs EXCEPT !.orderBy = @ \o Tail(field) \o <<" DESC">>]
    ELSE [qs EXCEPT !.orderBy = @ \o field \o <<" ASC">>]

\* strings.HasPrefix(field, "-") / TrimPrefix: the model holds the field as
\* its characters' split into an optional "-" and the rest.
OrderBy(qs, field) ==
    IF Len(field) > 0 /\ field[1] = "-"
    THEN [qs EXCEPT !.orderBy = Tail(field) \o <<" DESC">>]
    ELSE [qs EXCEPT !.orderBy = field \o <<" ASC">>]

Limit(qs, n)  == [qs EXCEPT !.limit = n]
Offset(qs, n) == [qs EXCEPT !.offset = n]

(***************************************************************************)
(* The relational backend: what the SQLite engine behind db.conn answers   *)
(* to the statements the QuerySet builds.  A row maps column names to      *)
(* values; a condition evaluates to "T", "F" or "N" (SQL's NULL).          *)
(***************************************************************************)
Columns == {"id", "a", "s"}

\* LOWER() and the ASCII order of the characters the model's texts use.
LowerChar(c) == CASE c = "A" -> "a" [] c = "B" -> "b" [] c = "N" -> "n" [] OTHER -> c

CharRank(c) ==
    CASE c = "%" -> 37 [] c = "1" -> 49 [] c = "2" -> 50 [] c = "A" -> 65 [] c = "B" -> 66
      [] c = "N" -> 78 [] c = "a" -> 97 [] c = "b" -> 98 [] c = "n" -> 110 [] OTHER -> 0

LowerText(s) == [k \in 1..Len(s) |-> LowerChar(s[k])]

\* LIKE: "%" matches any run of characters, "_" any one; SQLite folds ASCII case.
RECURSIVE LikeMatch(_, _)
LikeMatch(pat, str) ==
    IF pat = <<>> THEN str = <<>>
    ELSE IF Head(pat) = "%"
    THEN LikeMatch(Tail(pat), str) \/ (str # <<>> /\ LikeMatch(pat, Tail(str)))
    ELSE /\ str # <<>>
         /\ (Head(pat) = "_" \/ LowerChar(Head(pat)) = LowerChar(Head(str)))
         /\ LikeMatch(Tail(pat), Tail(str))

RECURSIVE TextLess(_, _)
TextLess(x, y) ==
    IF y = <<>> THEN FALSE
    ELSE IF x = <<>> THEN TRUE
    ELSE IF CharRank(Head(x)) # CharRank(Head(y)) THEN CharRank(Head(x)) < CharRank(Head(y))
    ELSE TextLess(Tail(x), Tail(y))

\* x < y over values of one storage class; NULL sorts before everything.
ValueLess(x, y) ==
    CASE x.t = "nil"                      -> y.t # "nil"
      [] y.t = "nil"                      -> FALSE
      [] x.t = "int" /\ y.t = "int"       -> x.i < y.i
      [] x.t = "string" /\ y.t = "string" -> TextLess(x.s, y.s)
      [] OTHER                            -> x.t = "int"

Bool3(b) == IF b THEN "T" ELSE "F"

Not3(v) == CASE v = "T" -> "F" [] v = "F" -> "T" [] OTHER -> "N"

RECURSIVE NotTimes(_, _)
NotTimes(v, k) == IF k = 0 THEN v ELSE NotTimes(Not3(v), k - 1)

\* One condition without its NOTs, its placeholders bound to bound[1..n].
EvalOp(c, bound, row) ==
    LET col == row[c.field]
    IN CASE c.op = "ISNULL"    -> Bool3(col.t = "nil")
         [] c.op = "ISNOTNULL" -> Bool3(col.t # "nil")
         [] c.op = "IN" ->
              IF col.t = "nil" THEN "N"
              ELSE Bool3(\E k \in 1..Len(bound) : bound[k] = col)
         [] col.t = "nil" \/ bound[1].t = "nil" -> "N"
         [] c.op = "="         -> Bool3(col = bound[1])
         [] c.op = "LOWER="    ->
              Bool3(col.t = "string" /\ bound[1].t = "string" /\ LowerText(col.s) = LowerText(bound[1].s))
         [] c.op = "LIKE"      -> Bool3(LikeMatch(Sprintv(bound[1]), Sprintv(col)))
         [] c.op = "LOWERLIKE" -> Bool3(LikeMatch(LowerText(Sprintv(bound[1])), LowerText(Sprintv(col))))
         [] c.op = ">"         -> Bool3(ValueLess(bound[1], col))
         [] c.op = ">="        -> Bool3(~ValueLess(col, bound[1]))
         [] c.op = "<"         -> Bool3(ValueLess(col, bound[1]))
         [] c.op = "<="        -> Bool3(~ValueLess(bound[1], col))
         [] OTHER              -> "N"

RECURSIVE Placeholders(_)
Placeholders(where) == IF where = <<>> THEN 0 ELSE Head(where).n + Placeholders(Tail(where))

\* conditions joined by AND, the "?" taking the arguments by position.
RECURSIVE EvalWhere(_, _, _)
EvalWhere(where, args, row) ==
    IF where = <<>> THEN "T"
    ELSE LET c    == Head(where)
             one  == NotTimes(EvalOp(c, SubSeq(args, 1, c.n), row), c.neg)
             rest == EvalWhere(Tail(where), SubSeq(args, c.n + 1, Len(args)), row)
         IN  CASE one = "F" \/ rest = "F" -> "F"
               [] one = "N" \/ rest = "N" -> "N"
               [] OTHER                   -> "T"

\* The driver refuses a statement with more "?" than arguments and ignores
\* arguments beyond the last "?".
EnoughArgs(where, args, before) == Len(args) >= before + Placeholders(where)

Selected(where, args, table) ==
    {k \in 1..Len(table) : EvalWhere(where, args, table[k]) = "T"}

RECURSIVE Pick(_, _, _)
Pick(table, keep, k) ==
    IF k > Len(table) THEN <<>>
    ELSE (IF k \in keep THEN <<table[k]>> ELSE <<>>) \o Pick(table, keep, k + 1)

\* ORDER BY col ASC|DESC: a stable insertion sort on the column.
RECURSIVE InsertSorted(_, _, _, _)
InsertSorted(sorted, r, col, desc) ==
    IF sorted = <<>> THEN <<r>>
    ELSE LET h == Head(sorted)
             before == IF desc THEN ValueLess(h[col], r[col]) ELSE ValueLess(r[col], h[col])
         IN  IF before THEN <<r>> \o sorted
             ELSE <<h>> \o InsertSorted(Tail(sorted), r, col, desc)

RECURSIVE SortRows(_, _, _)
SortRows(rs, col, desc) ==
    IF rs = <<>> THEN <<>>
    ELSE InsertSorted(SortRows(SubSeq(rs, 1, Len(rs) - 1), col, desc), rs[Len(rs)], col, desc)

Ordered(rs, orderBy) ==
    IF orderBy = <<>> THEN rs
    ELSE SortRows(rs, orderBy[1], orderBy[Len(orderBy)] = " DESC")

Window(rs, limit, offset) ==
    LET from == IF offset > 0 THEN offset + 1 ELSE 1
        rest == SubSeq(rs, from, Len(rs))
    IN  IF limit > 0 /\ Len(rest) > limit THEN SubSeq(rest, 1, limit) ELSE rest

\* scanRowIntoModel: a NULL cannot be scanned into an int or string field.
Scannable(r) == \A c \in Columns : r[c].t # "nil"

Panic == [status |-> "panic", recs |-> <<>>]

\* QuerySet.buildSQL + conn.Query + scanRows.  A nil conn (the mock handle)
\* is dereferenced; OFFSET without LIMIT is a syntax error.
All(driver, v, table) ==
    IF driver = "mock" THEN Panic
    ELSE IF ~EnoughArgs(v.where, v.args, 0) \/ (v.offset > 0 /\ v.limit <= 0)
    THEN [status |-> "error", recs |-> <<>>]
    ELSE LET hit == Window(Ordered(Pick(table, Selected(v.where, v.args, table), 1), v.orderBy),
                           v.limit, v.offset)
         IN  IF \A k \in 1..Len(hit) : Scannable(hit[k])
             THEN [status |-> "ok", recs |-> hit]
             ELSE [status |-> "error", recs |-> <<>>]

\* A First that runs All on the QuerySet as it stands.
FirstUnlimited(driver, wh, ah, qs, table) ==
    LET res == All(driver, QSView(wh, ah, qs), table)
    IN  CASE res.status # "ok" -> res
          [] Len(res.recs) > 0 -> [status |-> "ok", recs |-> <<res.recs[1]>>]
          [] OTHER             -> [status |-> "notfound", recs |-> <<>>]

\* QuerySet.First: qs.Limit(1).All(), then the first element of the slice or
\* "no results found".
First(driver, wh, ah, qs, table) ==
    LET res == All(driver, QSView(wh, ah, Limit(qs, 1)), table)
    IN  CASE res.status # "ok" -> res
          [] Len(res.recs) > 0 -> [status |-> "ok", recs |-> <<res.recs[1]>>]
          [] OTHER             -> [status |-> "notfound", recs |-> <<>>]

\* QuerySet.Count: SELECT COUNT(*) FROM t [WHERE ...] with qs.args, scanned
\* into an int; order, limit and offset are not part of the statement.
Count(driver, v, table) ==
    IF driver = "mock" THEN [status |-> "panic", count |-> 0]
    ELSE IF ~EnoughArgs(v.where, v.args, 0) THEN [status |-> "error", count |-> 0]
    ELSE [status |-> "ok", count |-> Cardinality(Selected(v.where, v.args, table))]

\* QuerySet.Exists: count > 0 and Count's error.
Exists(driver, v, table) ==
    LET c == Count(driver, v, table)
    IN  [status |-> c.status, exists |-> c.count > 0]

\* QuerySet.Delete: DELETE FROM t [WHERE ...] with qs.args.
Delete(driver, v, table) ==
    IF driver = "mock" THEN [status |-> "panic", table |-> table]
    ELSE IF ~EnoughArgs(v.where, v.args, 0) THEN [status |-> "error", table |-> table]
    ELSE [status |-> "ok",
          table  |-> Pick(table, (1..Len(table)) \ Selected(v.where, v.args, table), 1)]

\* An Update that builds and runs its statement whatever data holds: with
\* no data the statement reads "UPDATE t SET " and the engine rejects it.
UpdateUnchecked(driver, v, data, table) ==
    IF driver = "mock" THEN [status |-> "panic", table |-> table]
    ELSE LET args == IF Len(v.where) > 0 THEN v.args ELSE <<>>
             hit  == Selected(v.where, args, table)
             Set(r) == [c \in Columns |->
                          IF \E k \in 1..Len(data) : data[k].col = c
                          THEN (CHOOSE d \in {data[k] : k \in 1..Len(data)} : d.col = c).val
                          ELSE r[c]]
         IN  IF Len(data) = 0 \/ ~EnoughArgs(v.where, args, 0) THEN [status |-> "error", table |-> table]
             ELSE [status |-> "ok",
                   table  |-> [k \in 1..Len(table) |-> IF k \in hit THEN Set(table[k]) ELSE table[k]]]

\* QuerySet.Update: UPDATE t SET col = ? [WHERE ...]; the SET arguments come
\* first and qs.args follow only when there is a WHERE clause.  data is a
\* sequence of (column, value) pairs.
Update(driver, v, data, table) ==
    IF Len(data) = 0 THEN [status |-> "empty", table |-> table]
    ELSE IF driver = "mock" THEN [status |-> "panic", table |-> table]
    ELSE LET args == IF Len(v.where) > 0 THEN v.args ELSE <<>>
             hit  == Selected(v.where, args, table)
             Set(r) == [c \in Columns |->
                          IF \E k \in 1..Len(data) : data[k].col = c
                          THEN (CHOOSE d \in {data[k] : k \in 1..Len(data)} : d.col = c).val
                          ELSE r[c]]
         IN  IF ~EnoughArgs(v.where, args, 0) THEN [status |-> "error", table |-> table]
             ELSE [status |-> "ok",
                   table  |-> [k \in 1..Len(table) |-> IF k \in hit THEN Set(table[k]) ELSE table[k]]]

(***************************************************************************)
(* The callers of the QuerySet: the arguments they pass.                   *)
(***************************************************************************)
In(parts, value) == [parts |-> parts, value |-> value]

FilterInputs ==
    { In(<<"a">>, IntV(1)),
      In(<<"s", "iexact">>, StrV(<<"A", "N">>)),
      In(<<"s", "contains">>, StrV(<<"n">>)),
      In(<<"s", "icontains">>, StrV(<<"N">>)),
      In(<<"s", "startswith">>, StrV(<<"A">>)),
      In(<<"s", "endswith">>, StrV(<<"n">>)),
      In(<<"a", "gt">>, IntV(1)),
      In(<<"a", "gte">>, IntV(2)),
      In(<<"a", "lt">>, IntV(2)),
      In(<<"a", "lte">>, IntV(1)),
      In(<<"a", "in">>, ListV(<<1, 2>>)),
      In(<<"a", "in">>, IntV(2)),
      In(<<"a", "isnull">>, BoolV(TRUE)),
      In(<<"a", "isnull">>, BoolV(FALSE)),
      In(<<"a", "isnull">>, IntV(1)),
      In(<<"a", "regex">>, IntV(3)) }

ExcludeInputs ==
    { In(<<"a">>, IntV(1)),
      In(<<"s", "contains">>, StrV(<<"n">>)),
      In(<<"a", "in">>, ListV(<<1, 2>>)),
      In(<<"a", "isnull">>, BoolV(TRUE)) }

\* The chains that end in a terminal call draw from fewer arguments.
ExecFilterInputs ==
    { In(<<"a">>, IntV(1)),
      In(<<"s", "contains">>, StrV(<<"n">>)),
      In(<<"s", "icontains">>, StrV(<<"N">>)),
      In(<<"a", "gte">>, IntV(2)),
      In(<<"a", "in">>, ListV(<<1, 2>>)),
      In(<<"a", "isnull">>, BoolV(TRUE)) }

ExecExcludeInputs ==
    { In(<<"a">>, IntV(1)),
      In(<<"a", "isnull">>, BoolV(TRUE)) }

OrderInputs  == { <<"a">>, <<"-", "a">> }
LimitInputs  == { 0, 1 }
OffsetInputs == { 1 }
UpdateInputs == { <<>>, <<[col |-> "a", val |-> NullV]>>, <<[col |-> "a", val |-> IntV(5)]>> }

Row(id, a, s) == [c \in Columns |-> CASE c = "id" -> IntV(id) [] c = "a" -> a [] OTHER -> StrV(s)]

InitRows == << Row(1, IntV(1), <<"A", "n">>), Row(2, IntV(2), <<"b">>), Row(3, IntV(3), <<"a", "n">>) >>

NoCall == [op |-> "none", src |-> 0, parts |-> <<>>, value |-> NullV, status |-> "none"]

NoOp == [n |-> 0, kind |-> "none", qs |-> 0, data |-> <<>>, status |-> "none", recs |-> <<>>,
         mock |-> [status |-> "none", recs |-> <<>>], before |-> <<>>, count |-> 0, exists |-> FALSE]

(***************************************************************************)
(* Chain calls.  Each returns a new QuerySet, kept after the ones built    *)
(* before; a panic returns nothing.                                        *)
(***************************************************************************)
Returned(wh, ah, qs, i, call) ==
    /\ whereHeap' = wh
    /\ argsHeap' = ah
    /\ qsets' = Append(qsets, qs)
    /\ born' = Append(born, QSView(wh, ah, qs))
    /\ lineage' = Append(lineage,
                         IF call.op \in {"Filter", "Exclude"}
                         THEN Append(lineage[i], [op |-> call.op, parts |-> call.parts, value |-> call.value])
                         ELSE lineage[i])
    /\ lastCall' = [call EXCEPT !.status = "ok"]

Panicked(call) ==
    /\ lastCall' = [call EXCEPT !.status = "panic"]
    /\ UNCHANGED <<whereHeap, argsHeap, qsets, born, lineage>>

Call(op, i, parts, value) == [op |-> op, src |-> i, parts |-> parts, value |-> value, status |-> "none"]

FilterStep(from, max, inputs) ==
    \E i \in from, in \in inputs :
        LET r == Filter(whereHeap, argsHeap, qsets[i], in.parts, in.value)
        IN  /\ Len(qsets) < max
            /\ IF r.panic THEN Panicked(Call("Filter", i, in.parts, in.value))
               ELSE Returned(r.wh, r.ah, r.qs, i, Call("Filter", i, in.parts, in.value))
            /\ UNCHANGED <<execVars, mockVars, dbVars, httpVars, ddlVars>>

ExcludeStep(from, max, inputs) ==
    \E i \in from, in \in inputs :
        LET r == Exclude(whereHeap, argsHeap, qsets[i], in.parts, in.value)
        IN  /\ Len(qsets) < max
            /\ IF r.panic THEN Panicked(Call("Exclude", i, in.parts, in.value))
               ELSE Returned(r.wh, r.ah, r.qs, i, Call("Exclude", i, in.parts, in.value))
            /\ UNCHANGED <<execVars, mockVars, dbVars, httpVars, ddlVars>>

OrderByStep(from, max) ==
    \E i \in from, f \in OrderInputs :
        /\ Len(qsets) < max
        /\ Returned(whereHeap, argsHeap, OrderBy(qsets[i], f), i, Call("OrderBy", i, f, NullV))
        /\ UNCHANGED <<execVars, mockVars, dbVars, httpVars, ddlVars>>

LimitStep(from, max) ==
    \E i \in from, n \in LimitInputs :
        /\ Len(qsets) < max
        /\ Returned(whereHeap, argsHeap, Limit(qsets[i], n), i, Call("Limit", i, <<>>, IntV(n)))
        /\ UNCHANGED <<execVars, mockVars, dbVars, httpVars, ddlVars>>

OffsetStep(from, max) ==
    \E i \in from, n \in OffsetInputs :
        /\ Len(qsets) < max
        /\ Returned(whereHeap, argsHeap, Offset(qsets[i], n), i, Call("Offset", i, <<>>, IntV(n)))
        /\ UNCHANGED <<execVars, mockVars, dbVars, httpVars, ddlVars>>

(***************************************************************************)
(* Terminal calls on the QuerySet the chain ended with, against a          *)
(* relational handle and against a mock handle (ConnectMock: conn = nil)   *)
(* over the same stored rows.                                              *)
(***************************************************************************)
Current == QSView(whereHeap, argsHeap, qsets[Len(qsets)])

AllStep ==
    LET rel == All("sqlite3", Current, rows)
        mck == All("mock", Current, rows)
    IN  /\ lastOp.n < MaxTerminal
        /\ lastOp' = [n |-> lastOp.n + 1, kind |-> "All", qs |-> Len(qsets), data |-> <<>>,
                      status |-> rel.status, recs |-> rel.recs, mock |-> mck, before |-> rows, count |-> 0, exists |-> FALSE]
        /\ UNCHANGED <<rows, qsVars, mockVars, dbVars, httpVars, ddlVars>>

FirstStep ==
    LET rel == First("sqlite3", whereHeap, argsHeap, qsets[Len(qsets)], rows)
        mck == First("mock", whereHeap, argsHeap, qsets[Len(qsets)], rows)
    IN  /\ lastOp.n < MaxTerminal
        /\ lastOp' = [n |-> lastOp.n + 1, kind |-> "First", qs |-> Len(qsets), data |-> <<>>,
                      status |-> rel.status, recs |-> rel.recs, mock |-> mck, before |-> rows, count |-> 0, exists |-> FALSE]
        /\ UNCHANGED <<rows, qsVars, mockVars, dbVars, httpVars, ddlVars>>

CountStep ==
    LET rel == Count("sqlite3", Current, rows)
        mck == Count("mock", Current, rows)
    IN  /\ lastOp.n < MaxTerminal
        /\ lastOp' = [n |-> lastOp.n + 1, kind |-> "Count", qs |-> Len(qsets), data |-> <<>>,
                      status |-> rel.status, recs |-> <<>>,
                      mock |-> [status |-> mck.status, recs |-> <<>>], before |-> rows,
                      count |-> rel.count, exists |-> FALSE]
        /\ UNCHANGED <<rows, qsVars, mockVars, dbVars, httpVars, ddlVars>>

ExistsStep ==
    LET rel == Exists("sqlite3", Current, rows)
        mck == Exists("mock", Current, rows)
    IN  /\ lastOp.n < MaxTerminal
        /\ lastOp' = [n |-> lastOp.n + 1, kind |-> "Exists", qs |-> Len(qsets), data |-> <<>>,
                      status |-> rel.status, recs |-> <<>>,
                      mock |-> [status |-> mck.status, recs |-> <<>>], before |-> rows,
                      count |-> 0, exists |-> rel.exists]
        /\ UNCHANGED <<rows, qsVars, mockVars, dbVars, httpVars, ddlVars>>

DeleteStep ==
    LET rel == Delete("sqlite3", Current, rows)
        mck == Delete("mock", Current, rows)
    IN  /\ lastOp.n < MaxTerminal
        /\ rows' = rel.table
        /\ lastOp' = [n |-> lastOp.n + 1, kind |-> "Delete", qs |-> Len(qsets), data |-> <<>>,
                      status |-> rel.status, recs |-> <<>>,
                      mock |-> [status |-> mck.status, recs |-> <<>>], before |-> rows, count |-> 0, exists |-> FALSE]
        /\ UNCHANGED <<qsVars, mockVars, dbVars, httpVars, ddlVars>>

UpdateStep ==
    \E data \in UpdateInputs :
        LET rel == Update("sqlite3", Current, data, rows)
            mck == Update("mock", Current, data, rows)
        IN  /\ lastOp.n < MaxTerminal
            /\ rows' = rel.table
            /\ lastOp' = [n |-> lastOp.n + 1, kind |-> "Update", qs |-> Len(qsets), data |-> data,
                          status |-> rel.status, recs |-> <<>>,
                          mock |-> [status |-> mck.status, recs |-> <<>>], before |-> rows, count |-> 0, exists |-> FALSE]
            /\ UNCHANGED <<qsVars, mockVars, dbVars, httpVars, ddlVars>>

QSInit ==
    /\ whereHeap = <<>>
    /\ argsHeap = <<>>
    /\ qsets = <<NewQuerySet>>
    /\ born = <<QSView(<<>>, <<>>, NewQuerySet)>>
    /\ lineage = << <<>> >>
    /\ lastCall = NoCall
    /\ rows = InitRows
    /\ lastOp = NoOp

(***************************************************************************)
(* Record types handed to the database package.  User and TestUser embed   *)
(* models.Model (ID, CreatedAt, UpdatedAt and the TableName, BeforeCreate, *)
(* BeforeUpdate methods), an embedded field without a db tag; TestUser     *)
(* overrides TableName.  Item declares a tagged ID and Name and has no     *)
(* methods.  Note declares tagged ID, Name, CreatedAt and UpdatedAt fields *)
(* and its own BeforeCreate and BeforeUpdate, which stamp them.  Guest      *)
(* embeds models.Model as User does.  Bare declares ID and Name without db *)
(* tags.                                                                   *)
(***************************************************************************)
Types == {"User", "Item"}

EmbedsModel(ty) == ty \in {"User", "TestUser", "Guest"}

\* strings.ToLower(t.Name())
LowerName(ty) ==
    CASE ty = "User" -> "user" [] ty = "Item" -> "item" [] ty = "TestUser" -> "testuser"
      [] ty = "Note" -> "note" [] ty = "Guest" -> "guest" [] ty = "Bare" -> "bare" [] OTHER -> ""

\* The TableName method a *T carries: its own, or the one promoted from the
\* embedded Model, which returns "".
HasTableNamer(ty) == EmbedsModel(ty)
TableNameOf(ty)   == IF ty = "TestUser" THEN "test_users" ELSE ""

\* MockDB.getTableName
MockGetTableName(ty) ==
    IF HasTableNamer(ty) THEN TableNameOf(ty) ELSE LowerName(ty) \o "s"

\* A record instance: its type, its ID, its Name and its timestamps.
Model(ty, id, name) == [type |-> ty, ID |-> id, Name |-> name, CreatedAt |-> 0, UpdatedAt |-> 0]

\* A value of a map[string]interface{}: dynamic type, number, and for a
\* Model or a time.Time its timestamps.
MV(t, v, ts) == [t |-> t, v |-> v, ts |-> ts, up |-> 0]

\* MockDB.modelToMap: one entry per struct field, keyed by the lower-cased
\* field name; an embedded Model is the single field "model".
ModelToMap(m) ==
    CASE EmbedsModel(m.type) ->
           [k \in {"model", "name"} |->
              IF k = "model" THEN [MV("Model", m.ID, m.CreatedAt) EXCEPT !.up = m.UpdatedAt]
              ELSE MV("string", m.Name, 0)]
      [] m.type = "Note" ->
           [k \in {"id", "name", "createdat", "updatedat"} |->
              CASE k = "id" -> MV("uint", m.ID, 0)
                [] k = "name" -> MV("string", m.Name, 0)
                [] k = "createdat" -> MV("Time", 0, m.CreatedAt)
                [] OTHER -> MV("Time", 0, m.UpdatedAt)]
      [] OTHER ->
           [k \in {"id", "name"} |->
              IF k = "id" THEN MV("uint", m.ID, 0) ELSE MV("string", m.Name, 0)]

\* record[key] = value
MapSet(rec, key, value) == [k \in DOMAIN rec \cup {key} |-> IF k = key THEN value ELSE rec[k]]

\* MockDB.mapToModel: each settable field takes the entry under its
\* lower-cased name when the entry's type converts to the field's.
MapToModel(data, m) ==
    LET Has(k, t) == k \in DOMAIN data /\ data[k].t \in t
        named == IF Has("name", {"string"}) THEN [m EXCEPT !.Name = data["name"].v] ELSE m
        keyed == IF Has("id", {"int", "uint"}) THEN [named EXCEPT !.ID = data["id"].v] ELSE named
    IN  CASE EmbedsModel(m.type) ->
               IF Has("model", {"Model"})
               THEN [named EXCEPT !.ID = data["model"].v, !.CreatedAt = data["model"].ts,
                                  !.UpdatedAt = data["model"].up]
               ELSE named
          [] m.type = "Note" ->
               [keyed EXCEPT !.CreatedAt = IF Has("createdat", {"Time"}) THEN data["createdat"].ts ELSE @,
                             !.UpdatedAt = IF Has("updatedat", {"Time"}) THEN data["updatedat"].ts ELSE @]
          [] OTHER -> keyed

\* fmt.Sscanf(id, "%d", &targetID)
IdStrings == {"1", "7", "x"}
ParseID(s) == CASE s = "1" -> [ok |-> TRUE, n |-> 1]
                [] s = "7" -> [ok |-> TRUE, n |-> 7]
                [] OTHER   -> [ok |-> FALSE, n |-> 0]

\* The body of MockDB.Create once the table exists, under the write lock.
MockCreate(tbls, ctr, table, m) ==
    LET record == ModelToMap(m)
        hasID  == "id" \in DOMAIN record
        next   == IF table \in DOMAIN ctr THEN ctr[table] ELSE 0
        stored == IF hasID THEN record ELSE MapSet(record, "id", MV("int", next, 0))
    IN  [tables |-> [tbls EXCEPT ![table] = Append(@, stored)],
         nextID |-> IF hasID THEN ctr ELSE MapSet(ctr, table, next + 1),
         model  |-> IF hasID THEN m ELSE [m EXCEPT !.ID = next],
         row    |-> stored]

\* An AutoMigrate that initialises the table and its counter whether or not
\* the table exists.
MockAutoMigrateReset(tbls, ctr, table) ==
    [tables |-> MapSet(tbls, table, <<>>), nextID |-> MapSet(ctr, table, 1)]

\* The body of MockDB.AutoMigrate under the write lock.
MockAutoMigrate(tbls, ctr, table) ==
    IF table \in DOMAIN tbls THEN [tables |-> tbls, nextID |-> ctr]
    ELSE [tables |-> MapSet(tbls, table, <<>>), nextID |-> MapSet(ctr, table, 1)]

\* The first record whose "id" entry equals the int target (interface
\* equality: same dynamic type, same value).
RECURSIVE FirstWithID(_, _)
FirstWithID(records, target) ==
    IF records = <<>> THEN [hit |-> FALSE, record |-> <<>>]
    ELSE LET r == Head(records)
         IN  IF "id" \in DOMAIN r /\ r["id"] = MV("int", target, 0)
             THEN [hit |-> TRUE, record |-> r]
             ELSE FirstWithID(Tail(records), target)

\* A FindByID whose loop falls through to "return nil" when no record has
\* the key.
MockFindByIDSilent(tbls, table, m, idstr) ==
    LET parsed == ParseID(idstr)
        found  == FirstWithID(tbls[table], parsed.n)
    IN  IF table \notin DOMAIN tbls THEN [err |-> "record not found", model |-> m]
        ELSE IF ~parsed.ok THEN [err |-> "invalid ID format", model |-> m]
        ELSE IF found.hit THEN [err |-> "", model |-> MapToModel(found.record, m)]
        ELSE [err |-> "", model |-> m]

\* The body of MockDB.FindByID under the read lock.
MockFindByID(tbls, table, m, idstr) ==
    LET parsed == ParseID(idstr)
        found  == FirstWithID(tbls[table], parsed.n)
    IN  IF table \notin DOMAIN tbls THEN [err |-> "record not found", model |-> m]
        ELSE IF ~parsed.ok THEN [err |-> "invalid ID format", model |-> m]
        ELSE IF found.hit THEN [err |-> "", model |-> MapToModel(found.record, m)]
        ELSE [err |-> "record not found", model |-> m]

(***************************************************************************)
(* Goroutines calling the MockDB.  sync.RWMutex: Lock waits until no       *)
(* goroutine holds the mutex in either mode, the caller included.          *)
(***************************************************************************)
Procs == {1, 2}

CreateInputs == { Model(ty, id, 0) : ty \in Types, id \in {0, 7} }

Free == mutex.writer = 0 /\ mutex.readers = {}

Frame(fn, m, table, idstr, nested) ==
    [fn |-> fn, model |-> m, table |-> table, idstr |-> idstr, nested |-> nested, err |-> ""]

Idle == Frame("", Model("", 0, 0), "", "", FALSE)

\* db.AutoMigrate(&T{})
CallAutoMigrate(p) ==
    \E ty \in Types :
        /\ pc[p] = "idle" /\ calls < MaxCalls
        /\ calls' = calls + 1
        /\ local' = [local EXCEPT ![p] = Frame("AutoMigrate", Model(ty, 0, p), MockGetTableName(ty), "", FALSE)]
        /\ pc' = [pc EXCEPT ![p] = "Lock"]
        /\ UNCHANGED <<tables, nextID, mutex, history, qsVars, execVars, dbVars, httpVars, ddlVars>>

\* db.Create(&T{...}); the Name tells the goroutines' records apart.
CallCreate(p) ==
    \E m \in CreateInputs :
        /\ pc[p] = "idle" /\ calls < MaxCalls
        /\ calls' = calls + 1
        /\ local' = [local EXCEPT ![p] = Frame("Create", [m EXCEPT !.Name = p], MockGetTableName(m.type), "", FALSE)]
        /\ pc' = [pc EXCEPT ![p] = "Lock"]
        /\ UNCHANGED <<tables, nextID, mutex, history, qsVars, execVars, dbVars, httpVars, ddlVars>>

\* db.FindByID(new(T), id)
CallFindByID(p) ==
    \E ty \in Types, idstr \in IdStrings :
        /\ pc[p] = "idle" /\ calls < MaxCalls
        /\ calls' = calls + 1
        /\ local' = [local EXCEPT ![p] = Frame("FindByID", Model(ty, 0, 0), MockGetTableName(ty), idstr, FALSE)]
        /\ pc' = [pc EXCEPT ![p] = "RLock"]
        /\ UNCHANGED <<tables, nextID, mutex, history, qsVars, execVars, dbVars, httpVars, ddlVars>>

\* mdb.mutex.Lock() returns.
Lock(p) ==
    /\ pc[p] = "Lock" /\ Free
    /\ mutex' = [mutex EXCEPT !.writer = p]
    /\ pc' = [pc EXCEPT ![p] = local[p].fn]
    /\ UNCHANGED <<tables, nextID, local, calls, history, qsVars, execVars, dbVars, httpVars, ddlVars>>

\* mdb.mutex.RLock() returns.
RLock(p) ==
    /\ pc[p] = "RLock" /\ mutex.writer = 0
    /\ mutex' = [mutex EXCEPT !.readers = @ \cup {p}]
    /\ pc' = [pc EXCEPT ![p] = local[p].fn]
    /\ UNCHANGED <<tables, nextID, local, calls, history, qsVars, execVars, dbVars, httpVars, ddlVars>>

\* AutoMigrate's body, then its deferred Unlock is due.
AutoMigrateBody(p) ==
    LET r == MockAutoMigrate(tables, nextID, local[p].table)
    IN  /\ pc[p] = "AutoMigrate"
        /\ tables' = r.tables
        /\ nextID' = r.nextID
        /\ history' = Append(history, [fn |-> "AutoMigrate", p |-> p, table |-> local[p].table,
                                       before |-> local[p].model, after |-> local[p].model,
                                       idstr |-> "", err |-> "", ctr |-> 0, ctrAfter |-> 0, row |-> << >>])
        /\ pc' = [pc EXCEPT ![p] = "Unlock"]
        /\ UNCHANGED <<mutex, local, calls, qsVars, execVars, dbVars, httpVars, ddlVars>>

\* Create finds no table and calls mdb.AutoMigrate(model), write lock held.
CreateCallsAutoMigrate(p) ==
    /\ pc[p] = "Create"
    /\ local[p].table \notin DOMAIN tables
    /\ local' = [local EXCEPT ![p].nested = TRUE]
    /\ pc' = [pc EXCEPT ![p] = "Lock"]
    /\ UNCHANGED <<tables, nextID, mutex, calls, history, qsVars, execVars, dbVars, httpVars, ddlVars>>

\* Create's body on an existing table, then its deferred Unlock is due.
CreateBody(p) ==
    LET f == local[p]
        r == MockCreate(tables, nextID, f.table, f.model)
    IN  /\ pc[p] = "Create"
        /\ f.table \in DOMAIN tables
        /\ tables' = r.tables
        /\ nextID' = r.nextID
        /\ local' = [local EXCEPT ![p].model = r.model]
        /\ history' = Append(history, [fn |-> "Create", p |-> p, table |-> f.table,
                                       before |-> f.model, after |-> r.model,
                                       idstr |-> "", err |-> "", ctr |-> nextID[f.table],
                                       ctrAfter |-> r.nextID[f.table], row |-> r.row])
        /\ pc' = [pc EXCEPT ![p] = "Unlock"]
        /\ UNCHANGED <<mutex, calls, qsVars, execVars, dbVars, httpVars, ddlVars>>

\* FindByID's body, then its deferred RUnlock is due.
FindByIDBody(p) ==
    LET f == local[p]
        r == MockFindByID(tables, f.table, f.model, f.idstr)
    IN  /\ pc[p] = "FindByID"
        /\ local' = [local EXCEPT ![p].model = r.model, ![p].err = r.err]
        /\ history' = Append(history, [fn |-> "FindByID", p |-> p, table |-> f.table,
                                       before |-> f.model, after |-> r.model,
                                       idstr |-> f.idstr, err |-> r.err, ctr |-> 0, ctrAfter |-> 0, row |-> << >>])
        /\ pc' = [pc EXCEPT ![p] = "RUnlock"]
        /\ UNCHANGED <<tables, nextID, mutex, calls, qsVars, execVars, dbVars, httpVars, ddlVars>>

\* The deferred mdb.mutex.Unlock(); a nested AutoMigrate returns into Create.
Unlock(p) ==
    /\ pc[p] = "Unlock"
    /\ mutex' = [mutex EXCEPT !.writer = 0]
    /\ IF local[p].nested
       THEN /\ local' = [local EXCEPT ![p].nested = FALSE]
            /\ pc' = [pc EXCEPT ![p] = "Create"]
       ELSE /\ pc' = [pc EXCEPT ![p] = "idle"]
            /\ UNCHANGED local
    /\ UNCHANGED <<tables, nextID, calls, history, qsVars, execVars, dbVars, httpVars, ddlVars>>

\* The deferred mdb.mutex.RUnlock().
RUnlock(p) ==
    /\ pc[p] = "RUnlock"
    /\ mutex' = [mutex EXCEPT !.readers = @ \ {p}]
    /\ pc' = [pc EXCEPT ![p] = "idle"]
    /\ UNCHANGED <<tables, nextID, local, calls, history, qsVars, execVars, dbVars, httpVars, ddlVars>>

\* ConnectMock: empty maps, an unlocked mutex.
MockInit ==
    /\ tables = << >>
    /\ nextID = << >>
    /\ mutex = [writer |-> 0, readers |-> {}]
    /\ pc = [p \in Procs |-> "idle"]
    /\ local = [p \in Procs |-> Idle]
    /\ calls = 0
    /\ history = <<>>

(***************************************************************************)
(* The DB handle (database package): each key-based call goes to the       *)
(* MockDB when DB.mock is set and to the SQLite database behind DB.Conn    *)
(* otherwise.  A relational table holds its columns in declaration order,  *)
(* its rows and the last key AUTOINCREMENT gave out.                       *)
(***************************************************************************)
MaxDBCalls == 4

DBTypes == {"User", "TestUser", "Item", "Note", "Guest", "Bare"}

\* The columns named by the db tags of the struct's own fields, in order.
Tagged(ty) ==
    CASE EmbedsModel(ty) -> <<"name">>
      [] ty = "Note"     -> <<"id", "name", "created_at", "updated_at">>
      [] ty = "Bare"     -> <<>>
      [] OTHER           -> <<"id", "name">>

\* strings.Contains(dbTag, "primary_key") / "auto_increment"
IsKeyColumn(c) == c = "id"

FieldOf(m, c) ==
    CASE c = "id" -> m.ID [] c = "name" -> m.Name [] c = "created_at" -> m.CreatedAt
      [] OTHER -> m.UpdatedAt

\* The BeforeCreate / BeforeUpdate methods a *T carries.
HasHooks(ty) == EmbedsModel(ty) \/ ty = "Note"

BeforeCreate(m, now) == [m EXCEPT !.CreatedAt = now, !.UpdatedAt = now]
BeforeUpdate(m, now) == [m EXCEPT !.UpdatedAt = now]

\* DB.getTableName
GetTableName(ty) ==
    IF HasTableNamer(ty) THEN TableNameOf(ty) ELSE LowerName(ty) \o "s"

ColumnSet(cols) == {cols[k] : k \in 1..Len(cols)}

\* What a call returns and leaves behind.
Res(status, table, model, sql, recs, row) ==
    [status |-> status, table |-> table, model |-> model, sql |-> sql, recs |-> recs, row |-> row]

\* A statement naming no table is a syntax error, one naming a missing
\* table an execution error.
SqlValid(tbls, name) == name # "" /\ name \in DOMAIN tbls

\* "WHERE id = ?" bound to the text id: the rows whose key the text denotes.
KeyMatches(row, idstr) == ParseID(idstr).ok /\ row["id"] = ParseID(idstr).n

\* DB.AutoMigrate on the relational handle: CREATE TABLE IF NOT EXISTS.
SqlAutoMigrate(tbls, m) ==
    LET n0   == GetTableName(m.type)
        name == IF n0 = "" THEN LowerName(m.type) \o "s" ELSE n0
        cols == Tagged(m.type)
    IN  IF Len(cols) = 0 THEN Res("error", name, m, tbls, <<>>, << >>)
        ELSE IF name \in DOMAIN tbls THEN Res("ok", name, m, tbls, <<>>, << >>)
        ELSE Res("ok", name, m, MapSet(tbls, name, [cols |-> cols, rows |-> <<>>, seq |-> 0]), <<>>, << >>)

\* DB.Create on the relational handle: hook, INSERT of the columns that are
\* not auto-increment, then setIDField with LastInsertId.
SqlCreate(tbls, m0, now) ==
    LET ty    == m0.type
        m     == IF HasHooks(ty) THEN BeforeCreate(m0, now) ELSE m0
        name  == GetTableName(ty)
        ins   == SelectSeq(Tagged(ty), LAMBDA c : ~IsKeyColumn(c))
        tbl   == tbls[name]
        id    == tbl.seq + 1
        row   == [c \in ColumnSet(tbl.cols) |->
                     IF IsKeyColumn(c) THEN id ELSE IF c \in ColumnSet(ins) THEN FieldOf(m, c) ELSE 0]
        keyed == IF \E k \in 1..Len(Tagged(ty)) : IsKeyColumn(Tagged(ty)[k])
                 THEN [m EXCEPT !.ID = id] ELSE m
    IN  IF Len(ins) = 0 \/ ~SqlValid(tbls, name) THEN Res("error", name, m, tbls, <<>>, << >>)
        ELSE Res("ok", name, keyed,
                 [tbls EXCEPT ![name] = [@ EXCEPT !.rows = Append(@, row), !.seq = id]], <<>>, row)

\* What a column holds, and so what a field tagged with it is declared as.
ColKind(c) ==
    CASE c = "id" -> "int" [] c = "name" -> "text" [] c \in {"created_at", "updated_at"} -> "time"
      [] OTHER -> "null"

\* DB.scanRow: row.Scan into the tagged fields in declaration order, the
\* k-th column of the row going to the k-th of them.
scanRow(cols, row, m) ==
    LET dests == Tagged(m.type)
        Fits(k) == \/ ColKind(cols[k]) = ColKind(dests[k])
                   \/ ColKind(cols[k]) \in {"int", "time"} /\ ColKind(dests[k]) = "text"
        At(c, old) == IF \E k \in 1..Len(dests) : dests[k] = c
                      THEN row[cols[CHOOSE k \in 1..Len(dests) : dests[k] = c]] ELSE old
    IN  IF Len(cols) # Len(dests) \/ \E k \in 1..Len(cols) : ~Fits(k)
        THEN [ok |-> FALSE, model |-> m]
        ELSE [ok |-> TRUE,
              model |-> [m EXCEPT !.ID = At("id", @), !.Name = At("name", @),
                                  !.CreatedAt = At("created_at", @), !.UpdatedAt = At("updated_at", @)]]

\* DB.scanRowIntoModel: each column goes to the field its tag names, a
\* column no tag names to a discard variable.
ScanInto(row, m) ==
    LET Col(c, old) == IF c \in DOMAIN row /\ c \in ColumnSet(Tagged(m.type)) THEN row[c] ELSE old
    IN  [m EXCEPT !.ID = Col("id", @), !.Name = Col("name", @),
                  !.CreatedAt = Col("created_at", @), !.UpdatedAt = Col("updated_at", @)]

\* DB.FindAll on the relational handle.
SqlFindAll(tbls, m) ==
    LET name == GetTableName(m.type)
        rs   == tbls[name].rows
    IN  IF ~SqlValid(tbls, name) THEN Res("error", name, m, tbls, <<>>, << >>)
        ELSE Res("ok", name, m, tbls, [k \in 1..Len(rs) |-> ScanInto(rs[k], Model(m.type, 0, 0))], << >>)

\* DB.FindByID on the relational handle: QueryRow, then Scan (sql.ErrNoRows
\* when no row came back).
SqlFindByID(tbls, m, idstr) ==
    LET name == GetTableName(m.type)
        rs   == tbls[name].rows
        hits == {k \in 1..Len(rs) : KeyMatches(rs[k], idstr)}
        hit  == CHOOSE k \in hits : \A j \in hits : k <= j
    IN  IF ~SqlValid(tbls, name) \/ "id" \notin ColumnSet(tbls[name].cols)
        THEN Res("error", name, m, tbls, <<>>, << >>)
        ELSE IF hits = {} THEN Res("notfound", name, m, tbls, <<>>, << >>)
        ELSE LET scanned == scanRow(tbls[name].cols, rs[hit], m)
             IN  IF scanned.ok THEN Res("ok", name, scanned.model, tbls, <<>>, rs[hit])
                 ELSE Res("error", name, m, tbls, <<>>, rs[hit])

\* DB.Update on the relational handle: hook, then UPDATE of the columns
\* that are neither primary key nor auto-increment.
SqlUpdate(tbls, m0, idstr, now) ==
    LET ty   == m0.type
        m    == IF HasHooks(ty) THEN BeforeUpdate(m0, now) ELSE m0
        name == GetTableName(ty)
        set  == SelectSeq(Tagged(ty), LAMBDA c : ~IsKeyColumn(c))
        Set(r) == [c \in DOMAIN r |-> IF c \in ColumnSet(set) THEN FieldOf(m, c) ELSE r[c]]
        rs   == tbls[name].rows
        hits == {k \in 1..Len(rs) : KeyMatches(rs[k], idstr)}
    IN  IF Len(set) = 0 \/ ~SqlValid(tbls, name) \/ "id" \notin ColumnSet(tbls[name].cols)
        THEN Res("error", name, m, tbls, <<>>, << >>)
        ELSE Res("ok", name, m,
                 [tbls EXCEPT ![name].rows = [k \in 1..Len(rs) |-> IF k \in hits THEN Set(rs[k]) ELSE rs[k]]],
                 <<>>, IF hits = {} THEN << >> ELSE Set(rs[CHOOSE k \in hits : TRUE]))

\* DB.Delete on the relational handle.
SqlDelete(tbls, m, idstr) ==
    LET name == GetTableName(m.type)
        rs   == tbls[name].rows
    IN  IF ~SqlValid(tbls, name) \/ "id" \notin ColumnSet(tbls[name].cols)
        THEN Res("error", name, m, tbls, <<>>, << >>)
        ELSE Res("ok", name, m,
                 [tbls EXCEPT ![name].rows = SelectSeq(rs, LAMBDA r : ~KeyMatches(r, idstr))], <<>>, << >>)

\* MockDB.FindAll under the read lock.
MockFindAll(tbls, table, ty) ==
    IF table \notin DOMAIN tbls THEN <<>>
    ELSE [k \in 1..Len(tbls[table]) |-> MapToModel(tbls[table][k], Model(ty, 0, 0))]

\* The arguments the CRUD layer passes.
DBCreateInputs == { Model(ty, 0, 5) : ty \in DBTypes } \cup { Model("Item", 7, 5) }
DBUpdateInputs == { Model(ty, 0, 6) : ty \in DBTypes }
DBIdStrings    == {"1", "x"}

\* What the database file holds when Connect opens it: nothing, or the
\* items table an earlier schema left there with a row in it.
Stored(cols) ==
    [t \in {"items"} |->
        [cols |-> cols, seq |-> 1,
         rows |-> << [c \in ColumnSet(cols) |-> CASE c = "id" -> 1 [] c = "name" -> 4 [] OTHER -> 0] >>]]

DBFiles == { << >>, Stored(<<"id", "name", "extra">>), Stored(<<"name", "id">>) }

NotServed ==
    [op |-> "none", type |-> "", idstr |-> "", status |-> "none", table |-> "",
     before |-> Model("", 0, 0), after |-> Model("", 0, 0), recs |-> <<>>, row |-> << >>,
     sqlBefore |-> << >>, tablesBefore |-> << >>, nextIDBefore |-> << >>]

\* A caller may call while the handle is open and no call has crashed the
\* process or left the store's mutex held.
CanCall ==
    /\ dbDriver # "none"
    /\ dbCalls < MaxDBCalls
    /\ dbLast.status \notin {"panic", "deadlock"}

\* time.Now() as the hooks read it: later calls read later times.
Now == dbCalls + 1

Served(op, m, idstr, r) ==
    /\ dbCalls' = dbCalls + 1
    /\ dbLast' = [op |-> op, type |-> m.type, idstr |-> idstr, status |-> r.status, table |-> r.table,
                  before |-> m, after |-> r.model, recs |-> r.recs, row |-> r.row,
                  sqlBefore |-> sqlTables, tablesBefore |-> tables, nextIDBefore |-> nextID]
    /\ dbOwners' = IF dbDriver = "mock" /\ op = "Create" /\ r.status = "ok"
                   THEN MapSet(dbOwners, r.table,
                               Append(IF r.table \in DOMAIN dbOwners THEN dbOwners[r.table] ELSE <<>>, m.type))
                   ELSE dbOwners
    /\ UNCHANGED <<dbDriver, mutex, pc, local, calls, history, qsVars, execVars, httpVars, ddlVars>>

\* database.Connect / database.ConnectMock
DBConnect ==
    \E d \in {"sqlite3", "mock"}, file \in DBFiles :
        /\ dbDriver = "none"
        /\ dbDriver' = d
        /\ sqlTables' = IF d = "sqlite3" THEN file ELSE sqlTables
        /\ UNCHANGED <<dbCalls, dbLast, dbOwners, mockVars, qsVars, execVars, httpVars, ddlVars>>

\* DB.AutoMigrate
DBAutoMigrate ==
    \E ty \in DBTypes :
        LET m   == Model(ty, 0, 0)
            sql == SqlAutoMigrate(sqlTables, m)
            mck == MockAutoMigrate(tables, nextID, MockGetTableName(ty))
        IN  /\ CanCall
            /\ IF dbDriver = "mock"
               THEN /\ tables' = mck.tables /\ nextID' = mck.nextID /\ UNCHANGED sqlTables
                    /\ Served("AutoMigrate", m, "", Res("ok", MockGetTableName(ty), m, sqlTables, <<>>, << >>))
               ELSE /\ sqlTables' = sql.sql /\ UNCHANGED <<tables, nextID>>
                    /\ Served("AutoMigrate", m, "", sql)

\* DB.Create; MockDB.Create on a table never migrated locks the mutex it holds.
DBCreate ==
    \E m \in DBCreateInputs :
        LET table == MockGetTableName(m.type)
            sql   == SqlCreate(sqlTables, m, Now)
            mck   == MockCreate(tables, nextID, table, m)
        IN  /\ CanCall
            /\ IF dbDriver = "mock"
               THEN IF table \notin DOMAIN tables
                    THEN /\ UNCHANGED <<tables, nextID, sqlTables>>
                         /\ Served("Create", m, "", Res("deadlock", table, m, sqlTables, <<>>, << >>))
                    ELSE /\ tables' = mck.tables /\ nextID' = mck.nextID /\ UNCHANGED sqlTables
                         /\ Served("Create", m, "", Res("ok", table, mck.model, sqlTables, <<>>, mck.row))
               ELSE /\ sqlTables' = sql.sql /\ UNCHANGED <<tables, nextID>>
                    /\ Served("Create", m, "", sql)

\* DB.FindAll
DBFindAll ==
    \E ty \in DBTypes :
        LET m     == Model(ty, 0, 0)
            table == MockGetTableName(ty)
        IN  /\ CanCall
            /\ UNCHANGED <<tables, nextID, sqlTables>>
            /\ IF dbDriver = "mock"
               THEN Served("FindAll", m, "", Res("ok", table, m, sqlTables, MockFindAll(tables, table, ty), << >>))
               ELSE Served("FindAll", m, "", SqlFindAll(sqlTables, m))

\* DB.FindByID
DBFindByID ==
    \E ty \in DBTypes, idstr \in DBIdStrings :
        LET m     == Model(ty, 0, 0)
            table == MockGetTableName(ty)
            mck   == MockFindByID(tables, table, m, idstr)
            st    == CASE mck.err = "" -> "ok" [] mck.err = "record not found" -> "notfound"
                       [] OTHER -> "error"
        IN  /\ CanCall
            /\ UNCHANGED <<tables, nextID, sqlTables>>
            /\ IF dbDriver = "mock"
               THEN Served("FindByID", m, idstr, Res(st, table, mck.model, sqlTables, <<>>, << >>))
               ELSE Served("FindByID", m, idstr, SqlFindByID(sqlTables, m, idstr))

\* DB.Update: the hook, then db.Conn.Exec, whatever the driver; the mock
\* handle's Conn is nil.
DBUpdate ==
    \E m \in DBUpdateInputs, idstr \in DBIdStrings :
        LET sql == SqlUpdate(sqlTables, m, idstr, Now)
        IN  /\ CanCall
            /\ UNCHANGED <<tables, nextID>>
            /\ IF dbDriver = "mock"
               THEN /\ UNCHANGED sqlTables
                    /\ Served("Update", m, idstr, Res("panic", sql.table, sql.model, sqlTables, <<>>, << >>))
               ELSE /\ sqlTables' = sql.sql
                    /\ Served("Update", m, idstr, sql)

\* DB.Delete: db.Conn.Exec, whatever the driver.
DBDelete ==
    \E ty \in DBTypes, idstr \in DBIdStrings :
        LET m   == Model(ty, 0, 0)
            sql == SqlDelete(sqlTables, m, idstr)
        IN  /\ CanCall
            /\ UNCHANGED <<tables, nextID>>
            /\ IF dbDriver = "mock"
               THEN /\ UNCHANGED sqlTables
                    /\ Served("Delete", m, idstr, Res("panic", sql.table, m, sqlTables, <<>>, << >>))
               ELSE /\ sqlTables' = sql.sql
                    /\ Served("Delete", m, idstr, sql)

\* App.NewQuerySet: tableName is app.db.GetTableName(model).
DBNewQuerySet ==
    \E ty \in DBTypes :
        LET m == Model(ty, 0, 0)
        IN  /\ CanCall
            /\ UNCHANGED <<tables, nextID, sqlTables>>
            /\ Served("NewQuerySet", m, "", Res("ok", GetTableName(ty), m, sqlTables, <<>>, << >>))

DBInit ==
    /\ dbDriver = "none"
    /\ dbOwners = << >>
    /\ sqlTables = << >>
    /\ dbCalls = 0
    /\ dbLast = NotServed

(***************************************************************************)
(* The HTTP layer: App.Use and RouteGroup.Use append middleware, GET       *)
(* registers a wrapped handler with the router, and Router.ServeHTTP hands *)
(* a request to the first route whose pattern matches its path.  A path is *)
(* its segments and a segment, like the X-Route-Params header, a sequence  *)
(* of characters; a literal segment or a parameter name is one opaque      *)
(* character.                                                              *)
(***************************************************************************)
MaxUse == 2
MaxSegment == 2

\* The segments a request may put in the parameter's place.
Segments == UNION { [1..n -> {"1", "&", "="}] : n \in 1..MaxSegment }

\* The routes the application registers: app.GET("/context/:id") and, on
\* the group app.Group("/admin"), GET("/dashboard").
AppPatterns ==
    { <<[param |-> FALSE, text |-> <<"context">>], [param |-> TRUE, text |-> <<"id">>]>> }
GroupPatterns ==
    { <<[param |-> FALSE, text |-> <<"admin">>], [param |-> FALSE, text |-> <<"dashboard">>]>> }

\* The middleware functions handed to Use: BasicAuth("admin", "secret") and
\* the application's own.
Middlewares      == {"custom", "auth"}
GroupMiddlewares == {"audit", "auth"}

\* A request: its path, its Authorization header, the function of the chain
\* that returns an error for it, and whether the connection takes writes.
\* Requests to /admin/dashboard vary in all but the path, requests to
\* /context/:id in the segment, or in whether a middleware fails.
Requests ==
    [path : {<<<<"admin">>, <<"dashboard">>>>},
     auth : {"", "Basic admin:secret", "Basic admin:wrong"},
     failing : {"none", "custom", "audit"},
     writeOK : BOOLEAN]
    \cup
    [path : {<<<<"context">>, sg>> : sg \in Segments},
     auth : {"Basic admin:secret"}, failing : {"none"}, writeOK : {TRUE}]
    \cup
    [path : {<<<<"context">>, <<"1">>>>},
     auth : {"Basic admin:secret"}, failing : {"custom"}, writeOK : {TRUE}]

\* route.Regex.FindStringSubmatch(path): patternToRegex turns ":name" into
\* ([^/]+) and anchors the pattern.
Matches(pattern, path) ==
    /\ Len(path) = Len(pattern)
    /\ \A k \in 1..Len(pattern) :
           IF pattern[k].param THEN path[k] # <<>> ELSE path[k] = pattern[k].text

\* The params map Router.ServeHTTP fills from the submatches.
Submatches(pattern, path) ==
    LET at == {k \in 1..Len(pattern) : pattern[k].param}
        names == {pattern[k].text : k \in at}
    IN  [n \in names |-> path[CHOOSE k \in at : pattern[k].text = n /\ \A j \in at : pattern[j].text = n => j <= k]]

\* strings.Join(parts, sep)
RECURSIVE Join(_, _)
Join(parts, sep) ==
    IF parts = <<>> THEN <<>>
    ELSE IF Len(parts) = 1 THEN parts[1]
    ELSE parts[1] \o <<sep>> \o Join(Tail(parts), sep)

\* strings.Split(s, sep)
RECURSIVE Split(_, _)
Split(s, sep) ==
    IF \A k \in 1..Len(s) : s[k] # sep THEN <<s>>
    ELSE LET i == CHOOSE k \in 1..Len(s) : s[k] = sep /\ \A j \in 1..(k - 1) : s[j] # sep
         IN  <<SubSeq(s, 1, i - 1)>> \o Split(SubSeq(s, i + 1, Len(s)), sep)

\* The orders in which "range params" may visit the map's keys.
Orders(keys) ==
    {o \in [1..Cardinality(keys) -> keys] : \A k \in keys : \E i \in DOMAIN o : o[i] = k}

\* Router.encodeParams, visiting the keys in the given order.
encodeParams(params, order) ==
    Join([i \in 1..Len(order) |-> order[i] \o <<"=">> \o params[order[i]]], "&")

\* router.DecodeParams: the parts between "&", each cut at its first "=";
\* a part without "=" is skipped and a later part overwrites an earlier
\* one of the same name.
DecodeParams(encoded) ==
    LET RECURSIVE Decode(_, _)
        Decode(parts, params) ==
            IF parts = <<>> THEN params
            ELSE LET kv == Split(Head(parts), "=")
                 IN  Decode(Tail(parts),
                            IF Len(kv) >= 2
                            THEN MapSet(params, kv[1], Join(Tail(kv), "="))
                            ELSE params)
    IN  IF encoded = <<>> THEN << >> ELSE Decode(Split(encoded, "&"), << >>)

\* The response: the status line sent (0 while none is) and the bodies written.
NoResponse == [status |-> 0, bodies |-> <<>>]

Written(resp, status, body) ==
    [status |-> IF resp.status = 0 THEN status ELSE resp.status, bodies |-> Append(resp.bodies, body)]

\* Context.ErrorJSON: WriteHeader(status), then the encoder's error.
ErrorJSON(resp, status, message, req) ==
    IF req.writeOK THEN [err |-> FALSE, resp |-> Written(resp, status, message)]
    ELSE [err |-> TRUE, resp |-> resp]

\* middleware.BasicAuth("admin", "secret"); basicAuthEncode is the identity.
BasicAuth(req, resp) ==
    IF req.auth = "" THEN ErrorJSON(resp, 401, "Unauthorized", req)
    ELSE IF req.auth # "Basic admin:secret" THEN ErrorJSON(resp, 401, "Unauthorized", req)
    ELSE [err |-> FALSE, resp |-> resp]

\* One middleware function called with the request's context.
Invoke(mw, req, resp) ==
    IF mw = "auth" THEN BasicAuth(req, resp) ELSE [err |-> req.failing = mw, resp |-> resp]

\* "for _, middleware := range ...": each function in turn until one
\* returns an error.
RECURSIVE Chain(_, _, _, _)
Chain(mws, req, resp, trace) ==
    IF mws = <<>> THEN [err |-> FALSE, resp |-> resp, trace |-> trace]
    ELSE LET r == Invoke(Head(mws), req, resp)
             t == Append(trace, [who |-> Head(mws), err |-> r.err])
         IN  IF r.err THEN [err |-> TRUE, resp |-> r.resp, trace |-> t]
             ELSE Chain(Tail(mws), req, r.resp, t)

\* The route's handler: c.JSON(...), which returns the encoder's error.
Handler(req, resp, trace) ==
    [err |-> ~req.writeOK,
     resp |-> IF req.writeOK THEN Written(resp, 200, "handler") ELSE resp,
     trace |-> Append(trace, [who |-> "handler", err |-> ~req.writeOK])]

\* RouteGroup.wrapWithGroupMiddleware
wrapWithGroupMiddleware(groupMw, req, resp, trace) ==
    LET g == Chain(groupMw, req, resp, trace)
    IN  IF g.err THEN g ELSE Handler(req, g.resp, g.trace)

\* A wrapHandler whose middleware loop reports an error and goes on.
wrapHandlerNoReturn(appMw, groupMw, route, header, req) ==
    LET params == IF header # <<>> THEN DecodeParams(header) ELSE << >>
        RECURSIVE Each(_, _, _)
        Each(mws, resp, trace) ==
            IF mws = <<>> THEN [resp |-> resp, trace |-> trace]
            ELSE LET r == Invoke(Head(mws), req, resp)
                 IN  Each(Tail(mws),
                          IF r.err THEN ErrorJSON(r.resp, 500, "Middleware error", req).resp ELSE r.resp,
                          Append(trace, [who |-> Head(mws), err |-> r.err]))
        m      == Each(appMw, NoResponse, <<>>)
        h      == IF route.group THEN wrapWithGroupMiddleware(groupMw, req, m.resp, m.trace)
                  ELSE Handler(req, m.resp, m.trace)
        resp   == IF h.err THEN ErrorJSON(h.resp, 500, "Handler error", req).resp ELSE h.resp
    IN  [req |-> req, matched |-> TRUE, pattern |-> route.pattern, group |-> route.group,
         app |-> appMw, grp |-> groupMw, params |-> params, trace |-> h.trace, resp |-> resp]

\* The closure App.wrapHandler returns, called by the router: the parameters
\* from the header, app.middleware as it stands, then the handler.
wrapHandler(appMw, groupMw, route, header, req) ==
    LET params == IF header # <<>> THEN DecodeParams(header) ELSE << >>
        m      == Chain(appMw, req, NoResponse, <<>>)
        h      == IF route.group THEN wrapWithGroupMiddleware(groupMw, req, m.resp, m.trace)
                  ELSE Handler(req, m.resp, m.trace)
        resp   == IF m.err THEN ErrorJSON(m.resp, 500, "Middleware error", req).resp
                  ELSE IF h.err THEN ErrorJSON(h.resp, 500, "Handler error", req).resp
                  ELSE h.resp
    IN  [req |-> req, matched |-> TRUE, pattern |-> route.pattern, group |-> route.group,
         app |-> appMw, grp |-> groupMw, params |-> params,
         trace |-> IF m.err THEN m.trace ELSE h.trace, resp |-> resp]

\* http.NotFound
NotFound(req) ==
    [req |-> req, matched |-> FALSE, pattern |-> <<>>, group |-> FALSE, app |-> <<>>, grp |-> <<>>,
     params |-> << >>, trace |-> <<>>, resp |-> Written(NoResponse, 404, "404 page not found")]

NoRequest ==
    [req |-> [path |-> <<>>, auth |-> "", failing |-> "none", writeOK |-> TRUE], matched |-> FALSE,
     pattern |-> <<>>, group |-> FALSE, app |-> <<>>, grp |-> <<>>, params |-> << >>, trace |-> <<>>,
     resp |-> NoResponse]

\* App.Use
Use ==
    \E mw \in Middlewares \ {middleware[k] : k \in 1..Len(middleware)} :
        /\ Len(middleware) < MaxUse
        /\ middleware' = Append(middleware, mw)
        /\ UNCHANGED <<groupMiddleware, routes, lastRequest, qsVars, execVars, mockVars, dbVars, ddlVars>>

\* RouteGroup.Use
GroupUse ==
    \E mw \in GroupMiddlewares \ {groupMiddleware[k] : k \in 1..Len(groupMiddleware)} :
        /\ Len(groupMiddleware) < MaxUse
        /\ groupMiddleware' = Append(groupMiddleware, mw)
        /\ UNCHANGED <<middleware, routes, lastRequest, qsVars, execVars, mockVars, dbVars, ddlVars>>

\* App.GET: router.GET(path, app.wrapHandler(handler))
GET ==
    \E pattern \in AppPatterns :
        /\ \A k \in 1..Len(routes) : routes[k].pattern # pattern
        /\ routes' = Append(routes, [pattern |-> pattern, group |-> FALSE])
        /\ UNCHANGED <<middleware, groupMiddleware, lastRequest, qsVars, execVars, mockVars, dbVars, ddlVars>>

\* RouteGroup.GET: the prefixed path and the handler wrapped twice.
GroupGET ==
    \E pattern \in GroupPatterns :
        /\ \A k \in 1..Len(routes) : routes[k].pattern # pattern
        /\ routes' = Append(routes, [pattern |-> pattern, group |-> TRUE])
        /\ UNCHANGED <<middleware, groupMiddleware, lastRequest, qsVars, execVars, mockVars, dbVars, ddlVars>>

\* Router.ServeHTTP: the first matching route's handler, with the
\* parameters in the X-Route-Params header.
ServeHTTP ==
    \E req \in Requests :
        LET hits == {k \in 1..Len(routes) : Matches(routes[k].pattern, req.path)}
            route == routes[CHOOSE k \in hits : \A j \in hits : k <= j]
            params == Submatches(route.pattern, req.path)
        IN  /\ IF hits = {} THEN lastRequest' = NotFound(req)
               ELSE \E order \in Orders(DOMAIN params) :
                        lastRequest' = wrapHandler(middleware, groupMiddleware, route,
                                                   encodeParams(params, order), req)
            /\ UNCHANGED <<middleware, groupMiddleware, routes, qsVars, execVars, mockVars, dbVars, ddlVars>>

HTTPInit ==
    /\ middleware = <<>>
    /\ groupMiddleware = <<>>
    /\ routes = <<>>
    /\ lastRequest = NoRequest

(***************************************************************************)
(* Schema derivation: DB.AutoMigrate reads each struct field's db tag and  *)
(* hands the field and the tag to buildColumnDefinition.  A tag is the     *)
(* column name and the option tokens after it, each a key and a value.     *)
(***************************************************************************)
MaxTokens == 3

\* The tokens a tag may carry: the five constraints, default:0, size:10,
\* type:TEXT and a token buildColumnDefinition does not know.
TagTokens ==
    [k : {"primary_key", "auto_increment", "not_null", "unique", "index"}, v : {""}]
    \cup { [k |-> "default", v |-> "0"], [k |-> "size", v |-> "10"], [k |-> "type", v |-> "TEXT"] }

\* The option lists a tag may carry: distinct tokens in any order.
TagOptions ==
    UNION { {o \in [1..n -> TagTokens] : \A i, j \in 1..n : i # j => o[i] # o[j]} : n \in 0..MaxTokens }

StructFields == [kind : {"string", "int"}, name : {"title", ""}, options : TagOptions]

\* The switch on field.Type.Kind()
KindType(kind) ==
    CASE kind = "string" -> "TEXT" [] kind = "int" -> "INTEGER" [] kind = "float" -> "REAL"
      [] kind = "bool" -> "BOOLEAN" [] kind = "bytes" -> "BLOB" [] kind = "time" -> "DATETIME"
      [] OTHER -> "TEXT"

\* The loop over parts[1:]: each token acts on the column type and the
\* constraint list as they stand when it is reached.
RECURSIVE ParseOptions(_, _, _)
ParseOptions(options, columnType, constraints) ==
    IF options = <<>> THEN [columnType |-> columnType, constraints |-> constraints]
    ELSE LET part == Head(options)
             rest == Tail(options)
         IN  CASE part.k = "primary_key"    -> ParseOptions(rest, columnType, Append(constraints, "PRIMARY KEY"))
               [] part.k = "auto_increment" -> ParseOptions(rest, columnType, Append(constraints, "AUTOINCREMENT"))
               [] part.k = "not_null"       -> ParseOptions(rest, columnType, Append(constraints, "NOT NULL"))
               [] part.k = "unique"         -> ParseOptions(rest, columnType, Append(constraints, "UNIQUE"))
               [] part.k = "default"        -> ParseOptions(rest, columnType, Append(constraints, "DEFAULT " \o part.v))
               [] part.k = "size"           -> ParseOptions(rest,
                                                            IF columnType = "TEXT" THEN "VARCHAR(" \o part.v \o ")"
                                                            ELSE columnType,
                                                            constraints)
               [] part.k = "type"           -> ParseOptions(rest, part.v, constraints)
               [] OTHER                     -> ParseOptions(rest, columnType, constraints)

\* DB.buildColumnDefinition: the definition's words, none for an empty
\* column name.
buildColumnDefinition(f) ==
    LET parsed == ParseOptions(f.options, KindType(f.kind), <<>>)
    IN  IF f.name = "" THEN [built |-> TRUE, columnType |-> "", constraints |-> <<>>, definition |-> <<>>]
        ELSE [built |-> TRUE, columnType |-> parsed.columnType, constraints |-> parsed.constraints,
              definition |-> <<f.name, parsed.columnType>> \o parsed.constraints]

NoField == [kind |-> "", name |-> "", options |-> <<>>]
NoDefinition == [built |-> FALSE, columnType |-> "", constraints |-> <<>>, definition |-> <<>>]

\* modelType.Field(i) and field.Tag.Get("db"), for one field
ReflectField ==
    \E f \in StructFields :
        /\ structField = NoField
        /\ structField' = f
        /\ columnDef' = NoDefinition
        /\ UNCHANGED <<qsVars, execVars, mockVars, dbVars, httpVars>>

\* columnDef := db.buildColumnDefinition(field, dbTag)
BuildColumnDefinition ==
    /\ structField # NoField
    /\ ~columnDef.built
    /\ columnDef' = buildColumnDefinition(structField)
    /\ UNCHANGED <<structField, qsVars, execVars, mockVars, dbVars, httpVars>>

DDLInit ==
    /\ structField = NoField
    /\ columnDef = NoDefinition

(***************************************************************************)
(* Specifications.                                                         *)
(***************************************************************************)
Init == QSInit /\ MockInit /\ DBInit /\ HTTPInit /\ DDLInit

Anywhere == 1..Len(qsets)
Fluent   == {Len(qsets)}

QSNext ==
    \/ FilterStep(Anywhere, MaxQS, FilterInputs)
    \/ ExcludeStep(Anywhere, MaxQS, ExcludeInputs)
    \/ OrderByStep(Anywhere, MaxQS)
    \/ LimitStep(Anywhere, MaxQS)
    \/ OffsetStep(Anywhere, MaxQS)

ExecNext ==
    \/ FilterStep(Fluent, MaxExecQS, ExecFilterInputs)
    \/ ExcludeStep(Fluent, MaxExecQS, ExecExcludeInputs)
    \/ OrderByStep(Fluent, MaxExecQS)
    \/ LimitStep(Fluent, MaxExecQS)
    \/ OffsetStep(Fluent, MaxExecQS)
    \/ AllStep
    \/ FirstStep
    \/ CountStep
    \/ ExistsStep
    \/ DeleteStep
    \/ UpdateStep

MockNext ==
    \E p \in Procs :
        \/ CallAutoMigrate(p)
        \/ CallCreate(p)
        \/ CallFindByID(p)
        \/ Lock(p)
        \/ RLock(p)
        \/ AutoMigrateBody(p)
        \/ CreateCallsAutoMigrate(p)
        \/ CreateBody(p)
        \/ FindByIDBody(p)
        \/ Unlock(p)
        \/ RUnlock(p)

DBNext ==
    \/ DBConnect
    \/ DBAutoMigrate
    \/ DBCreate
    \/ DBFindAll
    \/ DBFindByID
    \/ DBUpdate
    \/ DBDelete
    \/ DBNewQuerySet

HTTPNext ==
    \/ Use
    \/ GroupUse
    \/ GET
    \/ GroupGET
    \/ ServeHTTP

DDLNext ==
    \/ ReflectField
    \/ BuildColumnDefinition

SpecQS   == Init /\ [][QSNext]_vars
SpecExec == Init /\ [][ExecNext]_vars
SpecMock == Init /\ [][MockNext]_vars
SpecDB   == Init /\ [][DBNext]_vars
SpecHTTP == Init /\ [][HTTPNext]_vars
SpecDDL  == Init /\ [][DDLNext]_vars

(***************************************************************************)
(* Properties.                                                             *)
(***************************************************************************)
ViewOf(i) == QSView(whereHeap, argsHeap, qsets[i])

Newest == ViewOf(Len(qsets))
Source == ViewOf(lastCall.src)

\* C1: All() on a QuerySet bound to the mock backend returns the records,
\* in the order, that All() on the relational backend returns for the same
\* chain over the same stored rows.
C1_BackendEquivalence ==
    lastOp.kind = "All" => lastOp.mock = [status |-> lastOp.status, recs |-> lastOp.recs]

\* C2: no chain call on a QuerySet, or on one derived from it, changes what
\* that QuerySet reads as: where, args, orderBy, limit and offset stay as
\* they were when it was returned.
C2_Immutable == \A i \in 1..Len(qsets) : ViewOf(i) = born[i]

\* An Exclude on a derived QuerySet that already holds a condition, beside
\* its parent.
C2_Witness ==
    /\ Len(qsets) = 3
    /\ lastCall.op = "Exclude" /\ lastCall.status = "ok" /\ lastCall.src = 2
    /\ born[2].where # <<>>
    /\ born[3].where # born[2].where

\* C3: Filter returns a QuerySet with exactly one condition more than the
\* one it was called on, the old conditions being a prefix of the new.
C3_FilterAppendsOne ==
    (lastCall.op = "Filter" /\ lastCall.status = "ok") =>
        /\ Len(Newest.where) = Len(Source.where) + 1
        /\ SubSeq(Newest.where, 1, Len(Source.where)) = Source.where

\* C4: Exclude keeps the conditions of the QuerySet it was called on as they
\* are and appends one negated condition on the given field.
C4_ExcludeNegatesOnlyNew ==
    (lastCall.op = "Exclude" /\ lastCall.status = "ok") =>
        /\ Len(Newest.where) = Len(Source.where) + 1
        /\ SubSeq(Newest.where, 1, Len(Source.where)) = Source.where
        /\ Newest.where[Len(Newest.where)].neg = 1
        /\ Newest.where[Len(Newest.where)].field = FieldName(lastCall.parts)

\* C5: in every QuerySet the conditions hold as many "?" as there are bound
\* arguments.
C5_ArgsAligned ==
    \A i \in 1..Len(qsets) : Placeholders(ViewOf(i).where) = Len(ViewOf(i).args)

\* The predicate a Filter/Exclude call asks for: the lookup's condition on
\* the row, negated for Exclude.
Asked(call, row) ==
    LET fc    == FilterCase(call.parts, call.value)
        bound == IF fc.cond.op = "IN" THEN fc.inArgs ELSE <<fc.value>>
        v     == EvalOp(fc.cond, bound, row)
    IN  (IF call.op = "Exclude" THEN Not3(v) ELSE v) = "T"

Wanted(i, row) == \A k \in 1..Len(lineage[i]) : Asked(lineage[i][k], row)

Changed(row, data) ==
    [c \in Columns |-> IF \E k \in 1..Len(data) : data[k].col = c
                       THEN (CHOOSE d \in {data[k] : k \in 1..Len(data)} : d.col = c).val
                       ELSE row[c]]

\* C6: a successful Delete removes exactly the rows that satisfy every
\* Filter/Exclude call of the chain, a successful Update changes exactly
\* those rows, and all other rows stay as they were.
C6_Scoping ==
    /\ (lastOp.kind = "Delete" /\ lastOp.status = "ok") =>
           rows = Pick(lastOp.before,
                       {k \in 1..Len(lastOp.before) : ~Wanted(lastOp.qs, lastOp.before[k])}, 1)
    /\ (lastOp.kind = "Update" /\ lastOp.status = "ok") =>
           rows = [k \in 1..Len(lastOp.before) |->
                     IF Wanted(lastOp.qs, lastOp.before[k])
                     THEN Changed(lastOp.before[k], lastOp.data)
                     ELSE lastOp.before[k]]

Creates == {k \in 1..Len(history) : history[k].fn = "Create"}
Finds   == {k \in 1..Len(history) : history[k].fn = "FindByID"}

\* C7: a Create of a record with an unset key leaves the caller's record
\* with a key k, and a later FindByID(k) for the same type succeeds with a
\* record whose ID is k and whose Name is the created one.
C7_RoundTrip ==
    \A c \in Creates :
        history[c].before.ID = 0 =>
            /\ history[c].after.ID # 0
            /\ \A f \in Finds :
                   (/\ f > c
                    /\ history[f].before.type = history[c].before.type
                    /\ ParseID(history[f].idstr).ok
                    /\ ParseID(history[f].idstr).n = history[c].after.ID) =>
                       /\ history[f].err = ""
                       /\ history[f].after.ID = history[c].after.ID
                       /\ history[f].after.Name = history[c].after.Name

\* C8: the Creates that different goroutines make of records with unset
\* keys on one table each get a key, and the keys increase in the order the
\* calls held the write lock.
C8_DistinctIncreasingKeys ==
    \A c, d \in Creates :
        (/\ c < d
         /\ history[c].p # history[d].p
         /\ history[c].table = history[d].table
         /\ history[c].before.ID = 0
         /\ history[d].before.ID = 0) =>
            /\ history[c].after.ID # 0
            /\ history[c].after.ID < history[d].after.ID

\* C9: no goroutine waits for the write lock while it holds that lock: a
\* Create on a table never migrated goes on to append its row and return.
C9_NoSelfDeadlock == \A p \in Procs : ~(pc[p] = "Lock" /\ mutex.writer = p)

\* C10: Create stores one row; a record with an unset key gets the counter's
\* value as key, in the row and in the caller's record, and the counter
\* goes up by one; a record that carries a key keeps it and the counter
\* stays.
C10_KeyAssignment ==
    \A c \in Creates :
        LET h == history[c]
        IN  /\ "id" \in DOMAIN h.row
            /\ IF h.before.ID = 0
               THEN h.after.ID = h.ctr /\ h.row["id"].v = h.ctr /\ h.ctrAfter = h.ctr + 1
               ELSE h.after.ID = h.before.ID /\ h.row["id"].v = h.before.ID /\ h.ctrAfter = h.ctr

\* The table the last call on the handle named existed before the call.
ExistedBefore ==
    IF dbDriver = "mock" THEN dbLast.table \in DOMAIN dbLast.tablesBefore
    ELSE dbLast.table \in DOMAIN dbLast.sqlBefore

KeyCalls == {"Create", "FindAll", "FindByID", "Update", "Delete"}

\* C12: on a handle opened with ConnectMock every key-based call (Create,
\* FindAll, FindByID, Update, Delete) returns, with success or an error
\* value: none dereferences the absent connection or fails to return.
C12_MockServesEveryCall ==
    (dbDriver = "mock" /\ dbLast.op \in KeyCalls) => dbLast.status \in {"ok", "error", "notfound"}

\* The creation time a stored row holds, where it holds one.
RowCreatedAt(row, none) ==
    CASE "model" \in DOMAIN row      -> row["model"].ts
      [] "createdat" \in DOMAIN row  -> row["createdat"].ts
      [] "created_at" \in DOMAIN row -> row["created_at"]
      [] OTHER                       -> none

\* The update time a stored row holds, where it holds one.
RowUpdatedAt(row, none) ==
    CASE "model" \in DOMAIN row      -> row["model"].up
      [] "updatedat" \in DOMAIN row  -> row["updatedat"].ts
      [] "updated_at" \in DOMAIN row -> row["updated_at"]
      [] OTHER                       -> none

\* C13: a successful Create of a record whose type has BeforeCreate has run
\* the hook on the record before storing it, so the record and the stored
\* row carry the time of the call; likewise BeforeUpdate for Update; a
\* record without hooks is stored with its timestamps untouched.
C13_HooksBeforePersistence ==
    /\ (dbLast.op = "Create" /\ dbLast.status = "ok" /\ HasHooks(dbLast.type)) =>
           /\ dbLast.after.CreatedAt = dbCalls
           /\ RowCreatedAt(dbLast.row, dbCalls) = dbCalls
    /\ (dbLast.op = "Update" /\ dbLast.status = "ok" /\ HasHooks(dbLast.type)) =>
           /\ dbLast.after.UpdatedAt = dbCalls
           /\ RowUpdatedAt(dbLast.row, dbCalls) = dbCalls
    /\ (dbLast.op \in {"Create", "Update"} /\ dbLast.status = "ok" /\ ~HasHooks(dbLast.type)) =>
           /\ dbLast.after.CreatedAt = dbLast.before.CreatedAt
           /\ dbLast.after.UpdatedAt = dbLast.before.UpdatedAt

\* The table a record type is bound to: its own TableName when the type
\* declares one, else the lower-cased type name followed by "s".
Bound(ty) == IF ty = "TestUser" THEN "test_users" ELSE LowerName(ty) \o "s"

\* C14: every call on the handle for a record type (AutoMigrate, Create,
\* FindAll, FindByID, Update, Delete, NewQuerySet) resolves the table the
\* type is bound to.
C14_TableBinding == dbLast.op # "none" => dbLast.table = Bound(dbLast.type)

\* C15: Update with an empty change mapping returns the empty-update error
\* on either handle, whatever the QuerySet holds, and leaves the rows as
\* they were.
C15_EmptyUpdate ==
    (lastOp.kind = "Update" /\ lastOp.data = <<>>) =>
        /\ lastOp.status = "empty"
        /\ lastOp.mock.status = "empty"
        /\ rows = lastOp.before

\* An empty Update at the end of a chain that holds conditions and a
\* limit.
C15_Witness ==
    /\ lastOp.kind = "Update" /\ lastOp.data = <<>>
    /\ Len(ViewOf(lastOp.qs).where) > 0
    /\ ViewOf(lastOp.qs).limit > 0

\* A lookup given a value of the wrong shape: isnull with a non-boolean, in
\* with a non-sequence.
Malformed(call) ==
    \/ Lookup(call.parts) = "isnull" /\ call.value.t # "bool"
    \/ Lookup(call.parts) = "in" /\ call.value.t # "slice"

\* C16: Filter with isnull and a non-boolean value, or with in and a
\* non-sequence value, ends in an error outcome: it neither panics nor
\* returns a QuerySet.
C16_MalformedLookupRejected ==
    (lastCall.op = "Filter" /\ Malformed(lastCall)) => lastCall.status = "error"

\* A row whose key is the one the text id denotes is stored in the table
\* the FindByID call named.
KeyStored ==
    /\ ParseID(dbLast.idstr).ok
    /\ IF dbDriver = "mock"
       THEN /\ dbLast.table \in DOMAIN tables
            /\ \E k \in 1..Len(tables[dbLast.table]) :
                   /\ "id" \in DOMAIN tables[dbLast.table][k]
                   /\ tables[dbLast.table][k]["id"].v = ParseID(dbLast.idstr).n
       ELSE /\ dbLast.table \in DOMAIN sqlTables
            /\ \E k \in 1..Len(sqlTables[dbLast.table].rows) :
                   /\ "id" \in DOMAIN sqlTables[dbLast.table].rows[k]
                   /\ sqlTables[dbLast.table].rows[k]["id"] = ParseID(dbLast.idstr).n

Sequence ==
    LET v == ViewOf(lastOp.qs)
    IN  Window(Ordered(Pick(lastOp.before, Selected(v.where, v.args, lastOp.before), 1), v.orderBy),
               0, v.offset)

\* C18: whatever conditions, order, offset and limit the QuerySet holds,
\* First returns the first of the rows the QuerySet selects, in its order,
\* from its offset on, and "no results found" exactly when there is none
\* (a first row that cannot be scanned into the record is an error, as it
\* is for All); ordered by "-a" it returns a row no selected row exceeds
\* in a.
C18_First ==
    (lastOp.kind = "First" /\ EnoughArgs(ViewOf(lastOp.qs).where, ViewOf(lastOp.qs).args, 0)) =>
        /\ lastOp.status = "notfound" <=> Sequence = <<>>
        /\ lastOp.status = "ok" <=> (Sequence # <<>> /\ Scannable(Sequence[1]))
        /\ lastOp.status = "ok" => lastOp.recs = <<Sequence[1]>>
        /\ (lastOp.status = "ok" /\ ViewOf(lastOp.qs).orderBy = <<"a", " DESC">>
              /\ ViewOf(lastOp.qs).offset = 0) =>
               \A k \in Selected(ViewOf(lastOp.qs).where, ViewOf(lastOp.qs).args, lastOp.before) :
                   ~ValueLess(lastOp.recs[1]["a"], lastOp.before[k]["a"])

\* First on a QuerySet ordered by "-a" with an offset and no limit of its
\* own: the row after the greatest.
C18_Witness ==
    /\ lastOp.kind = "First" /\ lastOp.status = "ok"
    /\ ViewOf(lastOp.qs).orderBy = <<"a", " DESC">>
    /\ ViewOf(lastOp.qs).offset = 1 /\ ViewOf(lastOp.qs).limit = 0
    /\ lastOp.recs[1]["a"] = IntV(2)

\* The rows that satisfy every Filter/Exclude call that led to the QuerySet
\* of the last terminal call.
Matching == {k \in 1..Len(lastOp.before) : Wanted(lastOp.qs, lastOp.before[k])}

\* C19: Count returns the number of rows that satisfy the Filter/Exclude
\* calls of the chain, whatever OrderBy, Limit and Offset calls the chain
\* holds, and Exists is true exactly when that number is above zero.
C19_CountPredicatesOnly ==
    /\ (lastOp.kind = "Count" /\ lastOp.status = "ok") => lastOp.count = Cardinality(Matching)
    /\ (lastOp.kind = "Exists" /\ lastOp.status = "ok") => (lastOp.exists <=> Cardinality(Matching) > 0)

\* C20: the QuerySet OrderBy returns holds one order column, the one the
\* call names, descending when the name starts with "-" and ascending
\* otherwise, whatever order the QuerySet it was called on held; its
\* conditions, arguments, limit and offset are those of that QuerySet.
C20_OrderByReplaces ==
    (lastCall.op = "OrderBy" /\ lastCall.status = "ok") =>
        /\ Newest.orderBy = << lastCall.parts[Len(lastCall.parts)],
                               IF lastCall.parts[1] = "-" THEN " DESC" ELSE " ASC" >>
        /\ Newest.where = Source.where
        /\ Newest.args = Source.args
        /\ Newest.limit = Source.limit
        /\ Newest.offset = Source.offset

\* An OrderBy on a QuerySet that already holds the other direction.
C20_Witness ==
    /\ lastCall.op = "OrderBy" /\ lastCall.status = "ok"
    /\ Source.orderBy = <<"a", " ASC">>
    /\ Newest.orderBy = <<"a", " DESC">>

(***************************************************************************)
(* The HTTP layer: middleware, BasicAuth, route parameters.                *)
(***************************************************************************)
\* What is to run for the last request, in order: the application's
\* middleware as registered when it was served, the group's for a group
\* route, then the handler.
Due ==
    lastRequest.app \o (IF lastRequest.group THEN lastRequest.grp ELSE <<>>) \o <<"handler">>

\* C21: for a request to a registered route, what runs is the application's
\* middleware in registration order, then the route group's, then the
\* handler, up to and including the first function that returns an error:
\* nothing runs after an error, and nothing due is left out while no error
\* has been returned.
C21_MiddlewareOrder ==
    lastRequest.matched =>
        LET t == lastRequest.trace
        IN  /\ Len(t) \in 1..Len(Due)
            /\ \A k \in 1..Len(t) : t[k].who = Due[k]
            /\ \A k \in 1..(Len(t) - 1) : ~t[k].err
            /\ Len(t) < Len(Due) => t[Len(t)].err

\* A group route served with two application middleware registered, whose
\* chain ended at the group's middleware returning an error.
C21_Witness ==
    /\ lastRequest.matched /\ lastRequest.group
    /\ Len(lastRequest.app) = 2
    /\ Len(lastRequest.grp) = 2
    /\ Len(lastRequest.trace) = 3
    /\ lastRequest.trace[3] = [who |-> "audit", err |-> TRUE]

\* The last request passed through BasicAuth without the expected
\* credentials.
Unauthorized ==
    /\ lastRequest.matched
    /\ \E k \in 1..Len(lastRequest.trace) : lastRequest.trace[k].who = "auth"
    /\ lastRequest.req.auth # "Basic admin:secret"

\* C22: a request that reaches BasicAuth with a missing or non-matching
\* Authorization header never has the route handler executed and is sent
\* the 401 reply and nothing else.
C22_BasicAuthProtects ==
    Unauthorized =>
        /\ \A k \in 1..Len(lastRequest.trace) : lastRequest.trace[k].who # "handler"
        /\ lastRequest.resp.status \in {0, 401}
        /\ \A k \in 1..Len(lastRequest.resp.bodies) : lastRequest.resp.bodies[k] # "handler"

\* C23: for a request whose path matches a registered pattern, the
\* parameter map the handler's context holds is exactly the pattern's names
\* mapped to the matched segments, character for character.
C23_ParamsRoundTrip ==
    lastRequest.matched =>
        lastRequest.params = Submatches(lastRequest.pattern, lastRequest.req.path)

(***************************************************************************)
(* Materialisation, schema errors and table isolation on the DB handle.    *)
(***************************************************************************)
\* The record a stored row gives by column name: each field takes the
\* column its tag names when the row has it and keeps its value otherwise.
ByName(row, m) ==
    LET Col(c, old) == IF c \in DOMAIN row /\ c \in ColumnSet(Tagged(m.type)) THEN row[c] ELSE old
    IN  [m EXCEPT !.ID = Col("id", @), !.Name = Col("name", @),
                  !.CreatedAt = Col("created_at", @), !.UpdatedAt = Col("updated_at", @)]

\* The stored row of the relational table with the key the last call named.
KeyRow ==
    LET rs == dbLast.sqlBefore[dbLast.table].rows
    IN  rs[CHOOSE k \in 1..Len(rs) : KeyMatches(rs[k], dbLast.idstr) /\
                                    \A j \in 1..Len(rs) : KeyMatches(rs[j], dbLast.idstr) => k <= j]

\* C24: on the relational handle FindAll and FindByID fill the record by
\* column name: FindAll on an existing table returns one record per stored
\* row, FindByID for a stored key succeeds, and every record read holds its
\* row's values under the columns its tags name, whatever the order of the
\* table's columns, without the columns no tag names and with the zero
\* value where the row has no column for a tag.
C24_ByColumnName ==
    /\ (dbDriver = "sqlite3" /\ dbLast.op = "FindAll" /\ dbLast.table \in DOMAIN dbLast.sqlBefore) =>
           LET rs == dbLast.sqlBefore[dbLast.table].rows
           IN  /\ dbLast.status = "ok"
               /\ dbLast.recs = [k \in 1..Len(rs) |-> ByName(rs[k], Model(dbLast.type, 0, 0))]
    /\ (dbDriver = "sqlite3" /\ dbLast.op = "FindByID" /\ KeyStored) =>
           /\ dbLast.status = "ok"
           /\ dbLast.after = ByName(KeyRow, dbLast.before)

\* C27: AutoMigrate for a record type without a persistable column returns
\* an error and creates no table, on either handle; for a type with one, on
\* the relational handle, it succeeds and the table exists afterwards.
C27_ZeroColumns ==
    /\ (dbLast.op = "AutoMigrate" /\ Tagged(dbLast.type) = <<>>) =>
           /\ dbLast.status = "error"
           /\ tables = dbLast.tablesBefore
           /\ sqlTables = dbLast.sqlBefore
    /\ (dbLast.op = "AutoMigrate" /\ Tagged(dbLast.type) # <<>> /\ dbDriver = "sqlite3") =>
           /\ dbLast.status = "ok"
           /\ dbLast.table \in DOMAIN sqlTables

\* C30: on the mock handle FindAll for a record type returns as many
\* records as rows were created for that type, none of them a row created
\* for another type.
C30_TableIsolation ==
    (dbDriver = "mock" /\ dbLast.op = "FindAll") =>
        LET own == IF dbLast.table \in DOMAIN dbOwners THEN dbOwners[dbLast.table] ELSE <<>>
        IN  /\ Len(dbLast.recs) = Len(own)
            /\ \A k \in 1..Len(own) : own[k] = dbLast.type

(***************************************************************************)
(* Column definitions.                                                     *)
(***************************************************************************)
\* The option of the given key the field's tag carries, if any.
Given(k) == {i \in 1..Len(structField.options) : structField.options[i].k = k}
Value(k) == structField.options[CHOOSE i \in Given(k) : TRUE].v

\* The constraint keys in the order the schema fixes for them.
FixedOrder == <<"primary_key", "auto_increment", "not_null", "unique", "default">>

Clause(k) ==
    CASE k = "primary_key" -> "PRIMARY KEY" [] k = "auto_increment" -> "AUTOINCREMENT"
      [] k = "not_null" -> "NOT NULL" [] k = "unique" -> "UNIQUE" [] OTHER -> "DEFAULT " \o Value(k)

\* C25: the column definition built for a tag lists the constraints the tag
\* carries in the order primary-key, auto-increment, not-null, unique,
\* default-value, whatever order the tag has them in, and nothing for a
\* token that is none of these.
C25_FixedConstraintOrder ==
    (columnDef.built /\ structField.name # "") =>
        LET present == SelectSeq(FixedOrder, LAMBDA k : Given(k) # {})
        IN  columnDef.constraints = [i \in 1..Len(present) |-> Clause(present[i])]

\* C26: the column type built for a tag with a type:X token is X, wherever
\* the token stands; without one it is the bounded text variant when the
\* field is text and the tag has a size:N token, and the type computed from
\* the field's kind otherwise.
C26_ExplicitTypeWins ==
    (columnDef.built /\ structField.name # "") =>
        columnDef.columnType =
            IF Given("type") # {} THEN Value("type")
            ELSE IF Given("size") # {} /\ KindType(structField.kind) = "TEXT"
                 THEN "VARCHAR(" \o Value("size") \o ")"
                 ELSE KindType(structField.kind)

(***************************************************************************)
(* Offset and Limit.                                                       *)
(***************************************************************************)
\* C28: All on a QuerySet with an offset and no limit succeeds and returns
\* the rows the QuerySet selects, in its order, without the first offset
\* of them.
C28_OffsetWithoutLimit ==
    (lastOp.kind = "All" /\ ViewOf(lastOp.qs).offset > 0 /\ ViewOf(lastOp.qs).limit = 0
       /\ EnoughArgs(ViewOf(lastOp.qs).where, ViewOf(lastOp.qs).args, 0)
       /\ \A k \in 1..Len(lastOp.before) : Scannable(lastOp.before[k])) =>
        /\ lastOp.status = "ok"
        /\ lastOp.recs = Sequence

\* C29: the QuerySet Limit(n) returns holds n as its limit, whatever limit
\* the one it was called on held, and All on it returns at most n rows,
\* none for Limit(0).
C29_LimitBounds ==
    (lastCall.op = "Limit" /\ lastCall.status = "ok") =>
        /\ Newest.limit = lastCall.value.i
        /\ (lastOp.kind = "All" /\ lastOp.qs = Len(qsets) /\ lastOp.status = "ok") =>
               Len(lastOp.recs) <= lastCall.value.i

====
